---- MODULE Spec2Model ----
(***************************************************************************)
(* A model of llm-helper: the hardware resolver (findGPUSpec and its       *)
(* estimators) and the fitness evaluator (recommendModels, evaluateModel   *)
(* and their helpers).                                                     *)
(*                                                                         *)
(* Numbers.  GB values, context sizes and core counts are integers.        *)
(* Scores are JavaScript numbers that are not integers in general          *)
(* (P * 1.5, the mean of one to three normalised benchmarks times 10), so  *)
(* a score s is held as the integer s * Unit.  Text is a sequence of       *)
(* one-character strings, so that toLowerCase, includes and the regular    *)
(* expressions are computed character by character.                        *)
(***************************************************************************)
EXTENDS Integers, Sequences, FiniteSets, TLC

(***************************************************************************)
(* Text                                                                    *)
(***************************************************************************)

\* String.prototype.toLowerCase on one character
LowerChar(c) ==
  CASE c = "A" -> "a" [] c = "B" -> "b" [] c = "C" -> "c" [] c = "D" -> "d"
    [] c = "E" -> "e" [] c = "F" -> "f" [] c = "G" -> "g" [] c = "H" -> "h"
    [] c = "I" -> "i" [] c = "J" -> "j" [] c = "K" -> "k" [] c = "L" -> "l"
    [] c = "M" -> "m" [] c = "N" -> "n" [] c = "O" -> "o" [] c = "P" -> "p"
    [] c = "Q" -> "q" [] c = "R" -> "r" [] c = "S" -> "s" [] c = "T" -> "t"
    [] c = "U" -> "u" [] c = "V" -> "v" [] c = "W" -> "w" [] c = "X" -> "x"
    [] c = "Y" -> "y" [] c = "Z" -> "z" [] OTHER -> c

\* String.prototype.toLowerCase
ToLowerCase(s) == [i \in 1..Len(s) |-> LowerChar(s[i])]

\* String.prototype.includes: sub occurs in s as a contiguous run
Includes(s, sub) ==
  \E i \in 0..(Len(s) - Len(sub)) : SubSeq(s, i + 1, i + Len(sub)) = sub

IsDigit(c) == c \in {"0", "1", "2", "3", "4", "5", "6", "7", "8", "9"}

\* the regular expression class \s, for the characters the model uses
IsSpace(c) == c = " "

DigitValue(c) ==
  CASE c = "0" -> 0 [] c = "1" -> 1 [] c = "2" -> 2 [] c = "3" -> 3
    [] c = "4" -> 4 [] c = "5" -> 5 [] c = "6" -> 6 [] c = "7" -> 7
    [] c = "8" -> 8 [] c = "9" -> 9

\* the end (exclusive) of the longest run of characters satisfying the
\* class, starting at position i
RECURSIVE DigitRunEnd(_, _)
DigitRunEnd(s, i) ==
  IF i <= Len(s) /\ IsDigit(s[i]) THEN DigitRunEnd(s, i + 1) ELSE i

RECURSIVE SpaceRunEnd(_, _)
SpaceRunEnd(s, i) ==
  IF i <= Len(s) /\ IsSpace(s[i]) THEN SpaceRunEnd(s, i + 1) ELSE i

\* the decimal value of the digits s[i..j-1]
RECURSIVE DigitsValue(_, _, _)
DigitsValue(s, i, j) ==
  IF i >= j THEN 0 ELSE DigitsValue(s, i, j - 1) * 10 + DigitValue(s[j - 1])

(***************************************************************************)
(* The unit of scores: a score s is the integer s * Unit.  P * 1.5 with P  *)
(* given to one decimal needs twentieths, the mean of k <= 3 benchmark     *)
(* terms times 10 needs 1/(10 k).                                          *)
(***************************************************************************)
Unit == 2 * 2 * 3 * 5

Max(a, b) == IF a >= b THEN a ELSE b
Min(a, b) == IF a <= b THEN a ELSE b

(***************************************************************************)
(* Absent optional fields.  An optional object is a record with a          *)
(* `present` flag; an absent one has its other fields at a fixed value.    *)
(***************************************************************************)
NoGPU == [present |-> FALSE, vram |-> 0]
NoCPU == [present |-> FALSE, cores |-> 0]
NoPreferences ==
  [present |-> FALSE, priority |-> "balanced", acceptableQuality |-> "absent",
   selectedUseCases |-> <<>>]
NoQualityMetrics == [present |-> FALSE, mmlu |-> 0, humanEval |-> 0, mt_bench10 |-> 0]
NoPerformanceProfile ==
  [present |-> FALSE, inferenceSpeed |-> "medium", qualityLevel |-> "medium"]
NoFilters ==
  [present |-> FALSE, useCases |-> <<>>, hasUseCases |-> FALSE,
   maxVRAM |-> 0, hasMaxVRAM |-> FALSE, maxRAM |-> 0, hasMaxRAM |-> FALSE,
   minContextWindow |-> 0, hasMinContextWindow |-> FALSE]

\* const preferences = hardware.preferences || { priority: 'balanced', acceptableQuality: 'any' }
DefaultPreferences ==
  [present |-> TRUE, priority |-> "balanced", acceptableQuality |-> "any",
   selectedUseCases |-> <<>>]

(***************************************************************************)
(* The scoring factors                                                     *)
(***************************************************************************)

\* a / b of two numbers >= 0 is NaN only for 0 / 0; every comparison with
\* NaN is false
IsNaNRatio(a, b) == a = 0 /\ b = 0

\* a / b <= n / d and a / b > n / d as JavaScript evaluates them (b = 0 and
\* a > 0 is Infinity)
RatioLeq(a, b, n, d) ==
  /\ ~IsNaNRatio(a, b)
  /\ b > 0
  /\ a * d <= n * b
RatioGt(a, b, n, d) ==
  /\ ~IsNaNRatio(a, b)
  /\ (b = 0 \/ a * d > n * b)

\* The values t in millionths with ((k + 0.5) / 30)^(1/1.8) for k = 0..29:
\* Math.round(-Math.pow(t, 1.8) * 30) = -k exactly for the t up to entry
\* k + 1 and above entry k
VRAMPenaltySteps ==
  << 102834, 189323, 251451, 303135, 348556, 389663, 427558, 462937, 496273,
     527906, 558090, 587021, 614853, 641712, 667700, 692903, 717392, 741231,
     764471, 787159, 809336, 831037, 852294, 873135, 893585, 913667, 933403,
     952810, 971905, 990706 >>

\* the same for ((k + 0.5) / 15)^(1/1.8), k = 0..14
RAMPenaltySteps ==
  << 151139, 278255, 369567, 445529, 512285, 572701, 628397, 680395, 729390,
     775882, 820244, 862765, 903671, 943146, 981342 >>

\* the rounded penalty with twice the multiplier
DoubledPenalty(required, capacity, steps) ==
  LET n == 2 * required - capacity
      below == {k \in 1..Len(steps) : n * 1000000 <= steps[k] * capacity}
  IN  IF below = {} THEN -2 * Len(steps)
      ELSE -2 * ((CHOOSE k \in below : \A j \in below : k <= j) - 1)

\* Math.round(-Math.pow((u - 0.5) * 2, 1.8) * Len(steps)) for u = required /
\* capacity in (0.5, 1]: (u - 0.5) * 2 = (2 required - capacity) / capacity.
\* recommendModels evaluates only the variants that passed its hard filters,
\* so required <= capacity wherever this is used.
RoundedPenalty(required, capacity, steps) ==
  LET n == 2 * required - capacity
      below == {k \in 1..Len(steps) : n * 1000000 <= steps[k] * capacity}
  IN  IF below = {} THEN -Len(steps)
      ELSE -((CHOOSE k \in below : \A j \in below : k <= j) - 1)

\* evaluateVRAM: the reason and the score impact of the VRAM factor
evaluateVRAM(hardware, variant) ==
  IF ~hardware.gpu.present
  THEN [reason |-> [factor |-> "VRAM", rating |-> "neutral", impact |-> "high",
                    explanation |-> "No GPU detected - using CPU/RAM"],
        scoreImpact |-> -20]
  ELSE
    LET req == variant.vramRequired
        cap == hardware.gpu.vram
        scoreImpact ==
          IF RatioGt(req, cap, 1, 2) /\ cap > 0
          THEN RoundedPenalty(req, cap, VRAMPenaltySteps)
          ELSE 0
        rating ==
          IF RatioLeq(req, cap, 7, 10) THEN "positive"
          ELSE IF RatioLeq(req, cap, 9, 10) THEN "neutral" ELSE "negative"
        explanation ==
          IF RatioLeq(req, cap, 1, 2) THEN "excellent headroom"
          ELSE IF RatioLeq(req, cap, 7, 10) THEN "good fit"
          ELSE IF RatioLeq(req, cap, 9, 10) THEN "tight but workable"
          ELSE "may be slow"
    IN [reason |-> [factor |-> "VRAM", rating |-> rating, impact |-> "high",
                    explanation |-> explanation],
        scoreImpact |-> scoreImpact]

\* evaluateRAM: the reason and the score impact of the RAM factor
evaluateRAM(hardware, variant) ==
  LET req == variant.ramRequired
      cap == hardware.ram
      scoreImpact ==
        IF RatioGt(req, cap, 1, 2) /\ cap > 0
        THEN RoundedPenalty(req, cap, RAMPenaltySteps)
        ELSE 0
      rating ==
        IF RatioLeq(req, cap, 7, 10) THEN "positive"
        ELSE IF RatioLeq(req, cap, 85, 100) THEN "neutral" ELSE "negative"
      explanation ==
        IF RatioLeq(req, cap, 1, 2) THEN "plenty available"
        ELSE IF RatioLeq(req, cap, 7, 10) THEN "good"
        ELSE IF RatioLeq(req, cap, 85, 100) THEN "close other apps"
        ELSE "may cause swapping"
  IN [reason |-> [factor |-> "RAM", rating |-> rating, impact |-> "medium",
                  explanation |-> explanation],
      scoreImpact |-> scoreImpact]

\* model.parameters.match(/(\d+(?:\.\d+)?)\s*B/i) tried at position i: the
\* end (exclusive) of the number when the expression matches there, else 0.
\* The digit runs and the spaces are taken greedily; giving one back never
\* helps, as the character after a shortened run is again a digit or a space.
\* (?:\.\d+)? after the integer part that ends at e1
FractionEnd(s, e1) ==
  IF e1 + 1 <= Len(s) /\ s[e1] = "." /\ IsDigit(s[e1 + 1])
  THEN DigitRunEnd(s, e1 + 1) ELSE e1

\* \s*B after the number that ends at e2, case-insensitively
UnitAfter(s, e2) ==
  IF SpaceRunEnd(s, e2) <= Len(s) /\ LowerChar(s[SpaceRunEnd(s, e2)]) = "b"
  THEN e2 ELSE 0

ParamMatchAt(s, i) ==
  IF i <= Len(s) /\ IsDigit(s[i])
  THEN UnitAfter(s, FractionEnd(s, DigitRunEnd(s, i))) ELSE 0

\* the positions where the expression matches; match() takes the leftmost
ParamStarts(s) == {i \in 1..Len(s) : ParamMatchAt(s, i) > 0}

MinOf(S) == CHOOSE k \in S : \A j \in S : k <= j

\* parseFloat of the number s[i..e2-1] whose integer part ends at e1, in
\* tenths.  Exact for the labels with at most one decimal.
NumberTenths(s, i, e1, e2) ==
  DigitsValue(s, i, e1) * 10 + (IF e2 > e1 THEN DigitValue(s[e1 + 1]) ELSE 0)

ParamTenthsAt(s, i) == NumberTenths(s, i, DigitRunEnd(s, i), ParamMatchAt(s, i))

\* paramMatch ? parseFloat(paramMatch[1]) : 0, in tenths
ParamCountTenths(s) ==
  IF ParamStarts(s) = {} THEN 0 ELSE ParamTenthsAt(s, MinOf(ParamStarts(s)))

\* Math.min(25, paramCount * 1.5), in units
CapabilityScore(parameters) ==
  Min(25 * Unit, (ParamCountTenths(parameters) * 3 * Unit) \div 20)

\* how many of mmlu / 100, humanEval / 100, mt_bench / 10 are > 0 (an absent
\* metric is 0; mt_bench is held in tenths, so every term is in hundredths)
PositiveNorms(metrics) ==
  Cardinality({k \in 1..3 :
                 << metrics.mmlu, metrics.humanEval, metrics.mt_bench10 >>[k] > 0})

\* avgScore * 10, in units
BenchmarkBonus(metrics) ==
  IF PositiveNorms(metrics) = 0 THEN 0
  ELSE ((metrics.mmlu + metrics.humanEval + metrics.mt_bench10) * 10 * Unit)
         \div (100 * PositiveNorms(metrics))

ContextBonus(variant) ==
  IF variant.contextWindow >= 128000 THEN 3
  ELSE IF variant.contextWindow >= 32000 THEN 2
  ELSE IF variant.contextWindow >= 16000 THEN 1 ELSE 0

\* totalScore = capabilityScore + benchmarkBonus of evaluateQuality, in units
QualityTotal(model, variant) ==
  CapabilityScore(model.parameters)
    + (IF model.qualityMetrics.present THEN BenchmarkBonus(model.qualityMetrics)
       ELSE ContextBonus(variant) * Unit)

\* meetsPreference with every stated preference but 'any' held to the
\* estimate of 4.0
MeetsWhenAnyOrRated(totalScore, preferences) ==
  preferences.acceptableQuality = "any" \/ totalScore * 5 >= 4 * 35 * Unit

\* estimatedRating = (totalScore / 35) * 5;
\* meetsPreference = acceptableQuality !== 'high' || estimatedRating >= 4.0
MeetsPreference(totalScore, preferences) ==
  preferences.acceptableQuality # "high" \/ totalScore * 5 >= 4 * 35 * Unit

\* what evaluateQuality returns for a totalScore
QualityResult(model, totalScore, preferences) ==
  [reason |->
     [factor |-> "Model Capability",
      rating |-> IF totalScore >= 15 * Unit THEN "positive"
                 ELSE IF totalScore >= 8 * Unit THEN "neutral" ELSE "negative",
      impact |-> "high",
      explanation |-> IF model.qualityMetrics.present THEN "benchmarks"
                      ELSE "capability estimated from size"],
   scoreImpact |-> IF MeetsPreference(totalScore, preferences) THEN totalScore
                   ELSE totalScore - 20 * Unit]

\* evaluateQuality: the reason and the score impact (in units) of the
\* model-capability factor
evaluateQuality(model, variant, preferences) ==
  QualityResult(model, QualityTotal(model, variant), preferences)

\* model.recommendedContexts?.[useCase], the object held as the sequence of
\* its entries (an absent object as no entries); 0 stands for undefined
RecommendedContext(model, useCase) ==
  LET entries == model.recommendedContexts
      hits == {i \in 1..Len(entries) : entries[i].useCase = useCase}
  IN IF hits = {} THEN 0 ELSE entries[CHOOSE i \in hits : TRUE].tokens

\* preferences.selectedUseCases?.[0] || model.useCases[0]
FirstUseCase(model, preferences) ==
  IF Len(preferences.selectedUseCases) > 0 THEN preferences.selectedUseCases[1]
  ELSE IF Len(model.useCases) > 0 THEN model.useCases[1] ELSE "undefined"

\* evaluateContext: the reason and the score impact of the context-window
\* factor; ratio = variant.contextWindow / recommended
evaluateContext(model, variant, useCase) ==
  LET recommended == RecommendedContext(model, useCase)
      ctx == variant.contextWindow
  IN IF recommended = 0
     THEN [reason |-> [factor |-> "Context Window", rating |-> "neutral",
                       impact |-> "low", explanation |-> "tokens available"],
           scoreImpact |-> 0]
     ELSE IF ctx >= 2 * recommended
     THEN [reason |-> [factor |-> "Context Window", rating |-> "positive",
                       impact |-> "medium", explanation |-> "excellent"],
           scoreImpact |-> 8]
     ELSE IF ctx >= recommended
     THEN [reason |-> [factor |-> "Context Window", rating |-> "positive",
                       impact |-> "medium", explanation |-> "good"],
           scoreImpact |-> 5]
     ELSE IF 2 * ctx >= recommended
     THEN [reason |-> [factor |-> "Context Window", rating |-> "neutral",
                       impact |-> "medium", explanation |-> "adequate"],
           scoreImpact |-> 0]
     ELSE [reason |-> [factor |-> "Context Window", rating |-> "negative",
                       impact |-> "medium", explanation |-> "limited"],
           scoreImpact |-> -5]

\* evaluatePerformanceProfile, called only when the model declares a profile
evaluatePerformanceProfile(model, preferences) ==
  LET profile == model.performanceProfile
  IN IF preferences.priority = "speed"
     THEN IF profile.inferenceSpeed = "fast"
          THEN [reason |-> [factor |-> "Speed", rating |-> "positive",
                            impact |-> "high", explanation |-> "fast"],
                scoreImpact |-> 10]
          ELSE IF profile.inferenceSpeed = "medium"
          THEN [reason |-> [factor |-> "Speed", rating |-> "neutral",
                            impact |-> "medium", explanation |-> "medium"],
                scoreImpact |-> 0]
          ELSE [reason |-> [factor |-> "Speed", rating |-> "negative",
                            impact |-> "high", explanation |-> "slow"],
                scoreImpact |-> -15]
     ELSE IF preferences.priority = "quality"
     THEN IF profile.qualityLevel = "high"
          THEN [reason |-> [factor |-> "Quality Level", rating |-> "positive",
                            impact |-> "high", explanation |-> "high"],
                scoreImpact |-> 10]
          ELSE [reason |-> [factor |-> "Quality Level", rating |-> "neutral",
                            impact |-> "medium", explanation |-> "medium"],
                scoreImpact |-> 0]
     ELSE [reason |-> [factor |-> "Performance", rating |-> "neutral",
                       impact |-> "low", explanation |-> "balanced"],
           scoreImpact |-> 0]

\* the quantization bonus of evaluateModel
QuantizationBonus(variant) ==
  IF Includes(variant.quantization, <<"Q", "4">>) THEN 5
  ELSE IF Includes(variant.quantization, <<"Q", "5">>) THEN 3 ELSE 0

\* scoreToCategory with `>` for `>=`
scoreAboveToCategory(score) ==
  IF score > 90 * Unit THEN "excellent"
  ELSE IF score > 70 * Unit THEN "good"
  ELSE IF score > 50 * Unit THEN "fair"
  ELSE IF score > 30 * Unit THEN "poor"
  ELSE "incompatible"

\* scoreToCategory without its last return
scoreToCategoryOrNone(score) ==
  IF score >= 90 * Unit THEN "excellent"
  ELSE IF score >= 70 * Unit THEN "good"
  ELSE IF score >= 50 * Unit THEN "fair"
  ELSE IF score >= 30 * Unit THEN "poor"
  ELSE "undefined"

\* scoreToCategory, on a score in units
scoreToCategory(score) ==
  IF score >= 90 * Unit THEN "excellent"
  ELSE IF score >= 70 * Unit THEN "good"
  ELSE IF score >= 50 * Unit THEN "fair"
  ELSE IF score >= 30 * Unit THEN "poor"
  ELSE "incompatible"

\* getWarnings without the test of hardware.cpu
getWarningsOfMemory(hardware, variant) ==
  (IF hardware.gpu.present /\ RatioGt(variant.vramRequired, hardware.gpu.vram, 9, 10)
   THEN << "High VRAM usage - performance may be impacted" >> ELSE << >>)
  \o (IF RatioGt(variant.ramRequired, hardware.ram, 8, 10)
      THEN << "High RAM usage - close other applications" >> ELSE << >>)

\* getWarnings
getWarnings(hardware, variant) ==
  (IF hardware.gpu.present /\ RatioGt(variant.vramRequired, hardware.gpu.vram, 9, 10)
   THEN << "High VRAM usage - performance may be impacted" >> ELSE << >>)
  \o (IF RatioGt(variant.ramRequired, hardware.ram, 8, 10)
      THEN << "High RAM usage - close other applications" >> ELSE << >>)
  \o (IF hardware.cpu.present /\ hardware.cpu.cores < 4
      THEN << "Low CPU core count may limit inference speed" >> ELSE << >>)

\* r.factor.includes('Speed'), for the factor names the evaluators emit
FactorIncludesSpeed(factor) == factor = "Speed"

\* generateRecommendations with the general suggestion pushed last
generalSuggestionLast(category, reasons, variant) ==
  LET negative(test(_)) ==
        \E i \in 1..Len(reasons) :
          reasons[i].rating = "negative" /\ test(reasons[i].factor)
      isVRAM(f) == f = "VRAM"
      isQuality(f) == f = "Quality"
  IN (IF negative(isVRAM)
      THEN << "Try a more aggressive quantization (Q4 instead of Q8)" >> ELSE << >>)
     \o (IF negative(isQuality)
         THEN << "Consider a larger model if hardware permits" >> ELSE << >>)
     \o (IF negative(FactorIncludesSpeed)
         THEN << "For faster inference, choose a smaller model" >> ELSE << >>)
     \o (IF category \in {"poor", "incompatible"}
         THEN << "Consider a smaller model or upgrading your hardware" >> ELSE << >>)

\* generateRecommendations
generateRecommendations(category, reasons, variant) ==
  LET negative(test(_)) ==
        \E i \in 1..Len(reasons) :
          reasons[i].rating = "negative" /\ test(reasons[i].factor)
      isVRAM(f) == f = "VRAM"
      isQuality(f) == f = "Quality"
  IN (IF category \in {"poor", "incompatible"}
      THEN << "Consider a smaller model or upgrading your hardware" >> ELSE << >>)
     \o (IF negative(isVRAM)
         THEN << "Try a more aggressive quantization (Q4 instead of Q8)" >> ELSE << >>)
     \o (IF negative(isQuality)
         THEN << "Consider a larger model if hardware permits" >> ELSE << >>)
     \o (IF negative(FactorIncludesSpeed)
         THEN << "For faster inference, choose a smaller model" >> ELSE << >>)

\* the clamp of the older revision: Math.max(0, Math.min(100, baseScore))
ClampWithCeiling(baseScore) == Max(0, Min(100 * Unit, baseScore))

\* baseScore = Math.max(0, baseScore)
ClampScore(baseScore) == Max(0, baseScore)

\* the end of evaluateModel: the category of the final score, the warnings
\* and the suggestions
Assessment(category, baseScore, reasons, hardware, variant) ==
  [category |-> category,
   score |-> baseScore,
   reasons |-> reasons,
   warnings |-> getWarnings(hardware, variant),
   recommendations |-> generateRecommendations(category, reasons, variant)]

Categorised(baseScore, reasons, hardware, variant) ==
  Assessment(scoreToCategory(baseScore), baseScore, reasons, hardware, variant)

\* the middle of evaluateModel: the reasons pushed and the impacts added to
\* the base score 100, factor by factor; the profile factor only when the
\* model declares a profile
Accumulated(vramEval, ramEval, qualityEval, contextEval, perfEval, model, variant, hardware) ==
  Categorised(
    ClampScore(
      100 * Unit + vramEval.scoreImpact * Unit + ramEval.scoreImpact * Unit
      + qualityEval.scoreImpact + contextEval.scoreImpact * Unit
      + (IF model.performanceProfile.present THEN perfEval.scoreImpact * Unit ELSE 0)
      + QuantizationBonus(variant) * Unit),
    << vramEval.reason, ramEval.reason, qualityEval.reason, contextEval.reason >>
      \o (IF model.performanceProfile.present THEN << perfEval.reason >> ELSE << >>),
    hardware, variant)

\* evaluateModel: the assessment of one variant; score in units
evaluateModel(model, variant, hardware, preferences) ==
  Accumulated(
    evaluateVRAM(hardware, variant),
    evaluateRAM(hardware, variant),
    evaluateQuality(model, variant, preferences),
    evaluateContext(model, variant, FirstUseCase(model, preferences)),
    evaluatePerformanceProfile(model, preferences),
    model, variant, hardware)

(***************************************************************************)
(* recommendModels and sortModels                                          *)
(***************************************************************************)

\* Array.prototype.sort with a comparator (a, b) => key(a) - key(b), keys[i]
\* being the key of seq[i]: the elements in ascending key order, equal keys
\* in their input order
StableSortByKey(seq, keys) ==
  LET n == Len(seq)
      rank(i) ==
        1 + Cardinality({j \in 1..n : keys[j] < keys[i]})
          + Cardinality({j \in 1..(i - 1) : keys[j] = keys[i]})
  IN [p \in 1..n |-> seq[CHOOSE i \in 1..n : rank(i) = p]]

\* filters.useCases.some(uc => model.useCases.includes(uc))
HasMatchingUseCase(model, useCases) ==
  \E i \in 1..Len(useCases) : \E j \in 1..Len(model.useCases) :
    useCases[i] = model.useCases[j]

\* the hard filters without the check of variant.ramRequired
PassesWithoutRAMCheck(model, variant, hardware, filters) ==
  /\ ~(hardware.gpu.present /\ variant.vramRequired > hardware.gpu.vram)
  /\ ~(filters.present /\ filters.hasMaxVRAM /\ filters.maxVRAM # 0
         /\ variant.vramRequired > filters.maxVRAM)
  /\ ~(filters.present /\ filters.hasMaxRAM /\ filters.maxRAM # 0
         /\ variant.ramRequired > filters.maxRAM)
  /\ ~(filters.present /\ filters.hasMinContextWindow /\ filters.minContextWindow # 0
         /\ variant.contextWindow < filters.minContextWindow)
  /\ ~(filters.present /\ filters.hasUseCases /\ Len(filters.useCases) > 0
         /\ ~HasMatchingUseCase(model, filters.useCases))

\* the hard filters with `>=` for `>` in the check of variant.vramRequired
PassesBelowCapacityOnly(model, variant, hardware, filters) ==
  /\ ~(hardware.gpu.present /\ variant.vramRequired >= hardware.gpu.vram)
  /\ ~(variant.ramRequired > hardware.ram)
  /\ ~(filters.present /\ filters.hasMaxVRAM /\ filters.maxVRAM # 0
         /\ variant.vramRequired > filters.maxVRAM)
  /\ ~(filters.present /\ filters.hasMaxRAM /\ filters.maxRAM # 0
         /\ variant.ramRequired > filters.maxRAM)
  /\ ~(filters.present /\ filters.hasMinContextWindow /\ filters.minContextWindow # 0
         /\ variant.contextWindow < filters.minContextWindow)
  /\ ~(filters.present /\ filters.hasUseCases /\ Len(filters.useCases) > 0
         /\ ~HasMatchingUseCase(model, filters.useCases))

\* the hard filters of recommendModels: TRUE when no `continue` is taken.  A
\* threshold filters?.x is applied when it is truthy: present and not 0.
PassesHardFilters(model, variant, hardware, filters) ==
  /\ ~(hardware.gpu.present /\ variant.vramRequired > hardware.gpu.vram)
  /\ ~(variant.ramRequired > hardware.ram)
  /\ ~(filters.present /\ filters.hasMaxVRAM /\ filters.maxVRAM # 0
         /\ variant.vramRequired > filters.maxVRAM)
  /\ ~(filters.present /\ filters.hasMaxRAM /\ filters.maxRAM # 0
         /\ variant.ramRequired > filters.maxRAM)
  /\ ~(filters.present /\ filters.hasMinContextWindow /\ filters.minContextWindow # 0
         /\ variant.contextWindow < filters.minContextWindow)
  /\ ~(filters.present /\ filters.hasUseCases /\ Len(filters.useCases) > 0
         /\ ~HasMatchingUseCase(model, filters.useCases))

\* the inner loop with `break` for `continue`: the variants before the
\* first one that fails
VariantsUntilFirstFailure(model, hardware, filters, preferences) ==
  LET passes(i) == PassesHardFilters(model, model.variants[i], hardware, filters)
      failing == {i \in 1..Len(model.variants) : ~passes(i)}
      stop == IF failing = {} THEN Len(model.variants) + 1
              ELSE CHOOSE i \in failing : \A k \in failing : i <= k
  IN [i \in 1..(stop - 1) |->
        [variant |-> model.variants[i],
         assessment |-> evaluateModel(model, model.variants[i], hardware, preferences)]]

\* the inner loop of recommendModels: the variants that pass, each with its
\* assessment, in catalog order
CompatibleVariants(model, hardware, filters, preferences) ==
  LET passes(v) == PassesHardFilters(model, v, hardware, filters)
      passing == SelectSeq(model.variants, passes)
  IN [i \in 1..Len(passing) |->
        [variant |-> passing[i],
         assessment |-> evaluateModel(model, passing[i], hardware, preferences)]]

\* the sort of the variants with equal scores in the reverse of their
\* catalog order
SortVariantsTiesReversed(compatibleVariants) ==
  StableSortByKey([i \in 1..Len(compatibleVariants) |->
                     compatibleVariants[Len(compatibleVariants) + 1 - i]],
                  [i \in 1..Len(compatibleVariants) |->
                     -compatibleVariants[Len(compatibleVariants) + 1 - i].assessment.score])

\* compatibleVariants.sort((a, b) => b.assessment.score - a.assessment.score)
SortVariantsByScore(compatibleVariants) ==
  StableSortByKey(compatibleVariants,
                  [i \in 1..Len(compatibleVariants) |->
                     -compatibleVariants[i].assessment.score])

\* the entry pushed for a model, its compatible variants sorted
Entry(model, sorted) ==
  [model |-> model,
   variants |-> sorted,
   defaultVariant |-> sorted[1].variant,
   assessment |-> sorted[1].assessment]

RecommendedModel(model, compatibleVariants) ==
  Entry(model, SortVariantsByScore(compatibleVariants))

\* return recommendations.sort((a, b) => b.assessment.score - a.assessment.score)
SortNoOp(recommendations) == recommendations
SortByScore(recommendations) ==
  StableSortByKey(recommendations,
                  [i \in 1..Len(recommendations) |-> -recommendations[i].assessment.score])

\* recommendModels
recommendModels(hardware, models, filters) ==
  LET preferences ==
        IF hardware.preferences.present THEN hardware.preferences
        ELSE DefaultPreferences
      compatible(i) == CompatibleVariants(models[i], hardware, filters, preferences)
      kept == SelectSeq([i \in 1..Len(models) |-> i],
                        LAMBDA i : Len(compatible(i)) > 0)
      recommendations ==
        [k \in 1..Len(kept) |-> RecommendedModel(models[kept[k]], compatible(kept[k]))]
  IN SortByScore(recommendations)

\* calculateEfficiency: performanceScore / variant.vramRequired as a
\* fraction of integers.  paramCount is parseFloat(paramMatch[1]), or 1
\* without a match; performanceScore is paramCount, or
\* paramCount * (0.5 + avgScore * 1.5) when a benchmark is positive.  With
\* paramCount in tenths and the benchmarks in hundredths, n of them positive
\* with sum s: paramCount * (100 n + 3 s) / (2000 n * vramRequired); the
\* fractions are held without the factor 2000 of their denominators.
EfficiencyParamTenths(parameters) ==
  IF ParamStarts(parameters) = {} THEN 10
  ELSE ParamTenthsAt(parameters, MinOf(ParamStarts(parameters)))

calculateEfficiency(model, variant) ==
  IF model.qualityMetrics.present /\ PositiveNorms(model.qualityMetrics) > 0
  THEN [num |-> EfficiencyParamTenths(model.parameters)
                  * (100 * PositiveNorms(model.qualityMetrics)
                     + 3 * (model.qualityMetrics.mmlu + model.qualityMetrics.humanEval
                            + model.qualityMetrics.mt_bench10)),
        den |-> PositiveNorms(model.qualityMetrics) * variant.vramRequired]
  ELSE [num |-> EfficiencyParamTenths(model.parameters) * 200,
        den |-> variant.vramRequired]

\* efficiencyB - efficiencyA > 0 for the fractions a and b: b is the larger
\* number.  A fraction over 0 is Infinity when its numerator is positive
\* (Infinity - Infinity is NaN, which sort takes as 0) and NaN when it is 0
\* (every difference with NaN is NaN).
EfficiencyLess(a, b) ==
  IF (a.den = 0 /\ a.num = 0) \/ (b.den = 0 /\ b.num = 0) THEN FALSE
  ELSE IF b.den = 0 THEN a.den # 0
  ELSE IF a.den = 0 THEN FALSE
  ELSE a.num * b.den < b.num * a.den

\* the key of the i-th entry under the efficiency comparator: how many
\* entries the comparator puts strictly before it
EfficiencyKey(recommendations, i) ==
  Cardinality({j \in 1..Len(recommendations) :
                 EfficiencyLess(
                   calculateEfficiency(recommendations[i].model,
                                       recommendations[i].defaultVariant),
                   calculateEfficiency(recommendations[j].model,
                                       recommendations[j].defaultVariant))})

\* the sort keys with 'vram' compared as b - a
SortKeyVRAMDescending(recommendations, sortBy, i) ==
  CASE sortBy = "score" -> -recommendations[i].assessment.score
    [] sortBy = "vram" -> -recommendations[i].defaultVariant.vramRequired
    [] sortBy = "size" -> recommendations[i].defaultVariant.fileSize
    [] sortBy = "context" -> -recommendations[i].defaultVariant.contextWindow
    [] sortBy = "efficiency" -> EfficiencyKey(recommendations, i)
    [] OTHER -> 0

\* the comparators of sortModels as ascending keys: a - b is the key
\* itself, b - a its negation; the default case sorts nothing
SortKey(recommendations, sortBy, i) ==
  CASE sortBy = "score" -> -recommendations[i].assessment.score
    [] sortBy = "vram" -> recommendations[i].defaultVariant.vramRequired
    [] sortBy = "size" -> recommendations[i].defaultVariant.fileSize
    [] sortBy = "context" -> -recommendations[i].defaultVariant.contextWindow
    [] sortBy = "efficiency" -> EfficiencyKey(recommendations, i)
    [] OTHER -> 0

\* sortModels: the array it returns
sortModels(recommendations, sortBy) ==
  StableSortByKey(recommendations,
                  [i \in 1..Len(recommendations) |-> SortKey(recommendations, sortBy, i)])

\* sortModels sorting the array it was given in place of a copy
ArgumentSortedInPlace(recommendations, sortBy) ==
  StableSortByKey(recommendations,
                  [i \in 1..Len(recommendations) |-> SortKey(recommendations, sortBy, i)])

\* const sorted = [...recommendations]: the sort runs on a copy, and the
\* array sortModels was given is after the call what it was before
ArgumentAfterSort(recommendations, sortBy) == recommendations

(***************************************************************************)
(* The catalog, the profiles and the filters the engine is run on          *)
(***************************************************************************)
Q4_K_M == << "Q", "4", "_", "K", "_", "M" >>
Q5_K_M == << "Q", "5", "_", "K", "_", "M" >>
Q8_0 == << "Q", "8", "_", "0" >>
FP16 == << "F", "P", "1", "6" >>

Label7B == << "7", "B" >>
Label13B == << "1", "3", "B" >>
Label70B == << "7", "0", "B" >>
Label3p8B == << "3", ".", "8", "B" >>
Label8x7b == << "8", "x", "7", "b" >>
LabelLarge == << "l", "a", "r", "g", "e" >>

Variant(q, vram, ram, size, ctx) ==
  [quantization |-> q, vramRequired |-> vram, ramRequired |-> ram,
   fileSize |-> size, contextWindow |-> ctx]

\* a 7B model without optional metadata, one variant within 8 GB of VRAM
\* and one beyond it
Mistral7B ==
  [id |-> "mistral-7b", parameters |-> Label7B,
   variants |-> << Variant(Q4_K_M, 5, 8, 4, 8192), Variant(Q8_0, 9, 14, 8, 8192) >>,
   useCases |-> << "chat", "coding" >>,
   qualityMetrics |-> NoQualityMetrics,
   performanceProfile |-> NoPerformanceProfile,
   recommendedContexts |-> << >>]

\* the same variants under another id: equal scores on every profile
Zephyr7B == [Mistral7B EXCEPT !.id = "zephyr-7b"]

Llama13B ==
  [id |-> "llama-13b", parameters |-> Label13B,
   variants |-> << Variant(Q8_0, 16, 20, 14, 4096), Variant(Q5_K_M, 10, 14, 9, 4096),
                   Variant(Q4_K_M, 8, 12, 7, 4096) >>,
   useCases |-> << "chat" >>,
   qualityMetrics |->
     [present |-> TRUE, mmlu |-> 55, humanEval |-> 0, mt_bench10 |-> 65],
   performanceProfile |->
     [present |-> TRUE, inferenceSpeed |-> "slow", qualityLevel |-> "high"],
   recommendedContexts |-> << [useCase |-> "chat", tokens |-> 4096] >>]

PhiMini ==
  [id |-> "phi-3-mini", parameters |-> Label3p8B,
   variants |-> << Variant(Q4_K_M, 3, 4, 2, 131072), Variant(FP16, 8, 10, 7, 131072) >>,
   useCases |-> << "coding" >>,
   qualityMetrics |->
     [present |-> TRUE, mmlu |-> 69, humanEval |-> 59, mt_bench10 |-> 82],
   performanceProfile |->
     [present |-> TRUE, inferenceSpeed |-> "fast", qualityLevel |-> "medium"],
   recommendedContexts |-> << [useCase |-> "coding", tokens |-> 8192] >>]

Llama70B ==
  [id |-> "llama-70b", parameters |-> Label70B,
   variants |-> << Variant(Q4_K_M, 24, 32, 40, 8192) >>,
   useCases |-> << "writing" >>,
   qualityMetrics |-> NoQualityMetrics,
   performanceProfile |->
     [present |-> TRUE, inferenceSpeed |-> "slow", qualityLevel |-> "high"],
   recommendedContexts |-> << [useCase |-> "writing", tokens |-> 32768],
                            [useCase |-> "coding", tokens |-> 32768] >>]

\* a label the parameter expression does not match, with a variant that
\* needs no memory at all and one that takes every penalty on the 8 GB GPU
\* with 16 GB of RAM
Unlabelled ==
  [id |-> "unlabelled", parameters |-> LabelLarge,
   variants |-> << Variant(Q8_0, 0, 0, 1, 2048), Variant(Q5_K_M, 4, 4, 1, 2048),
                   Variant(Q8_0, 8, 16, 1, 2048) >>,
   useCases |-> << "chat" >>,
   qualityMetrics |-> NoQualityMetrics,
   performanceProfile |->
     [present |-> TRUE, inferenceSpeed |-> "slow", qualityLevel |-> "medium"],
   recommendedContexts |-> << [useCase |-> "chat", tokens |-> 8192],
                              [useCase |-> "coding", tokens |-> 8192] >>]

\* variants that differ in vramRequired alone: all of a GPU's memory and
\* half of it, for the 8 GB and the 24 GB GPU
Twin7B ==
  [id |-> "twin-7b", parameters |-> Label7B,
   variants |-> << Variant(Q4_K_M, 8, 8, 4, 8192), Variant(Q4_K_M, 4, 8, 4, 8192),
                   Variant(Q4_K_M, 24, 8, 4, 8192), Variant(Q4_K_M, 12, 8, 4, 8192) >>,
   useCases |-> << "chat" >>,
   qualityMetrics |-> NoQualityMetrics,
   performanceProfile |-> NoPerformanceProfile,
   recommendedContexts |-> << >>]

ModelPool == {Mistral7B, Zephyr7B, Llama13B, PhiMini, Llama70B, Unlabelled, Twin7B}

\* the longest catalog
MaxCatalog == 2

\* the catalogs: sequences of models with distinct ids
Catalogs ==
  UNION {
    {c \in [1..n -> ModelPool] : \A i, j \in 1..n : i # j => c[i].id # c[j].id}
    : n \in 0..MaxCatalog}

GPU(vram) == [present |-> TRUE, vram |-> vram]
CPU(cores) == [present |-> TRUE, cores |-> cores]
Preferences(priority, quality, useCases) ==
  [present |-> TRUE, priority |-> priority, acceptableQuality |-> quality,
   selectedUseCases |-> useCases]

PreferenceSets ==
  {NoPreferences,
   Preferences("speed", "high", << "coding" >>),
   Preferences("quality", "absent", << >>)}

Hardwares ==
  [gpu : {NoGPU, GPU(0), GPU(8), GPU(24)},
   ram : {0, 4, 16, 32},
   cpu : {NoCPU},
   preferences : PreferenceSets]
  \cup
  [gpu : {NoGPU, GPU(0), GPU(8), GPU(24)},
   ram : {0, 4, 16, 32},
   cpu : {CPU(2), CPU(4)},
   preferences : {Preferences("balanced", "medium", << >>)}]

\* no filters argument, an empty filters object, and objects with some of
\* the thresholds; 0 is a threshold a caller can pass
FilterSets ==
  {NoFilters,
   [NoFilters EXCEPT !.present = TRUE],
   [NoFilters EXCEPT !.present = TRUE, !.hasMaxVRAM = TRUE, !.maxVRAM = 6],
   [NoFilters EXCEPT !.present = TRUE, !.hasMaxRAM = TRUE, !.maxRAM = 12,
                     !.hasMinContextWindow = TRUE, !.minContextWindow = 8192],
   [NoFilters EXCEPT !.present = TRUE, !.hasUseCases = TRUE,
                     !.useCases = << "coding", "writing" >>],
   [NoFilters EXCEPT !.present = TRUE, !.hasUseCases = TRUE,
                     !.hasMaxVRAM = TRUE, !.maxVRAM = 0]}

(***************************************************************************)
(* The hardware resolver: findGPUSpec and its estimators                   *)
(***************************************************************************)

\* systemRAM?: number, an optional argument
NoSystemRAM == [present |-> FALSE, gb |-> 0]
SystemRAM(gb) == [present |-> TRUE, gb |-> gb]

\* GPUSpec.vramGB: number | number[] | 'shared'
SingleVRAM(gb) == [kind |-> "number", value |-> gb, values |-> << >>]
VRAMOptions(values) == [kind |-> "array", value |-> 0, values |-> values]
SharedVRAM == [kind |-> "shared", value |-> 0, values |-> << >>]

\* GPUSpec
GPUSpec(manufacturer, model, type, vramGB) ==
  [manufacturer |-> manufacturer, model |-> model, type |-> type,
   vramGB |-> vramGB, isIntegrated |-> type = "Integrated"]

\* lower.includes(a) || lower.includes(b) || ...
IncludesAny(lower, subs) == \E k \in 1..Len(subs) : Includes(lower, subs[k])

\* Math.min(Math.floor(systemRAM * fraction), cap), the fraction as num / den
ShareOfRAM(gb, num, den, cap) == Min((gb * num) \div den, cap)

\* the tiers of estimateIntegratedGPUVRAM, on the lower-cased name
TierEstimate(lower, gb) ==
  IF IncludesAny(lower, << << "7", "8", "0", "m" >>, << "8", "9", "0", "m" >>, << "8", "8", "0", "m" >>, << "i", "r", "i", "s", " ", "x", "e" >> >>)
  THEN ShareOfRAM(gb, 5, 10, 16)
  ELSE IF IncludesAny(lower, << << "6", "8", "0", "m" >>, << "7", "6", "0", "m" >>, << "6", "6", "0", "m" >>, << "v", "e", "g", "a" >> >>)
  THEN ShareOfRAM(gb, 4, 10, 12)
  ELSE IF IncludesAny(lower, << << "u", "h", "d" >>, << "i", "n", "t", "e", "l", " ", "h", "d" >> >>)
  THEN ShareOfRAM(gb, 25, 100, 8)
  ELSE ShareOfRAM(gb, 3, 10, 8)

\* estimateIntegratedGPUVRAM; !systemRAM holds of an absent hint and of 0
estimateIntegratedGPUVRAM(gpuName, systemRAM) ==
  IF ~systemRAM.present \/ systemRAM.gb = 0 THEN 4
  ELSE TierEstimate(ToLowerCase(gpuName), systemRAM.gb)

\* a pattern such as /RTX\s*4070\s*Ti/i is the sequence of its literal
\* pieces, lower-cased; \s* stands between two pieces.  The pieces match at
\* position i of the lower-cased text when each piece is found after the
\* spaces that follow the piece before it (a piece starts with a character
\* that is not a space, so \s* has to take every space).
RECURSIVE PiecesMatchAt(_, _, _)
PiecesMatchAt(lower, i, pieces) ==
  \/ pieces = << >>
  \/ /\ i + Len(Head(pieces)) - 1 <= Len(lower)
     /\ SubSeq(lower, i, i + Len(Head(pieces)) - 1) = Head(pieces)
     /\ PiecesMatchAt(lower, SpaceRunEnd(lower, i + Len(Head(pieces))), Tail(pieces))

\* pattern.test(gpuModel)
PatternTest(pieces, lower) == \E i \in 1..Len(lower) : PiecesMatchAt(lower, i, pieces)

\* vramPatterns of estimateVRAMFromPattern, in the order of the source
vramPatterns ==
  << [pattern |-> << << "r", "t", "x" >>, << "5", "0", "9", "0" >> >>,
        vram |-> 32],
     [pattern |-> << << "r", "t", "x" >>, << "5", "0", "8", "0" >> >>,
        vram |-> 16],
     [pattern |-> << << "r", "t", "x" >>, << "5", "0", "7", "0" >> >>,
        vram |-> 12],
     [pattern |-> << << "r", "t", "x" >>, << "5", "0", "6", "0" >> >>,
        vram |-> 8],
     [pattern |-> << << "r", "t", "x" >>, << "4", "0", "9", "0" >> >>,
        vram |-> 24],
     [pattern |-> << << "r", "t", "x" >>, << "4", "0", "8", "0" >> >>,
        vram |-> 16],
     [pattern |-> << << "r", "t", "x" >>, << "4", "0", "7", "0" >>, << "t", "i" >> >>,
        vram |-> 12],
     [pattern |-> << << "r", "t", "x" >>, << "4", "0", "7", "0" >> >>,
        vram |-> 12],
     [pattern |-> << << "r", "t", "x" >>, << "4", "0", "6", "0" >>, << "t", "i" >> >>,
        vram |-> 8],
     [pattern |-> << << "r", "t", "x" >>, << "4", "0", "6", "0" >> >>,
        vram |-> 8],
     [pattern |-> << << "r", "t", "x" >>, << "3", "0", "9", "0" >> >>,
        vram |-> 24],
     [pattern |-> << << "r", "t", "x" >>, << "3", "0", "8", "0" >> >>,
        vram |-> 10],
     [pattern |-> << << "r", "t", "x" >>, << "3", "0", "7", "0" >> >>,
        vram |-> 8],
     [pattern |-> << << "r", "t", "x" >>, << "3", "0", "6", "0" >> >>,
        vram |-> 12],
     [pattern |-> << << "r", "x" >>, << "7", "9", "0", "0" >>, << "x", "t", "x" >> >>,
        vram |-> 24],
     [pattern |-> << << "r", "x" >>, << "7", "9", "0", "0" >>, << "x", "t" >> >>,
        vram |-> 20],
     [pattern |-> << << "r", "x" >>, << "7", "8", "0", "0" >>, << "x", "t" >> >>,
        vram |-> 16],
     [pattern |-> << << "r", "x" >>, << "6", "9", "0", "0" >> >>,
        vram |-> 16],
     [pattern |-> << << "r", "x" >>, << "6", "8", "0", "0" >> >>,
        vram |-> 16],
     [pattern |-> << << "m", "1" >>, << "m", "a", "x" >> >>,
        vram |-> 32],
     [pattern |-> << << "m", "2" >>, << "m", "a", "x" >> >>,
        vram |-> 38],
     [pattern |-> << << "m", "3" >>, << "m", "a", "x" >> >>,
        vram |-> 48],
     [pattern |-> << << "m", "4" >>, << "m", "a", "x" >> >>,
        vram |-> 48] >>

\* the keywords with radeon counting on its own: (a || radeon) && graphics
\* read as a || radeon
HasKeywordOrRadeon(lower) ==
  IncludesAny(lower, << << "i", "n", "t", "e", "g", "r", "a", "t", "e", "d" >>,
                        << "i", "n", "t", "e", "l" >>,
                        << "u", "h", "d" >>,
                        << "i", "r", "i", "s" >>,
                        << "r", "a", "d", "e", "o", "n" >>,
                        << "v", "e", "g", "a" >>,
                        << "a", "n", "g", "l", "e" >> >>)

\* the integrated-GPU keywords of estimateVRAMFromPattern; && binds tighter
\* than ||, so radeon counts only together with graphics
HasIntegratedKeyword(lower) ==
  \/ Includes(lower, << "i", "n", "t", "e", "g", "r", "a", "t", "e", "d" >>)
  \/ Includes(lower, << "i", "n", "t", "e", "l" >>)
  \/ Includes(lower, << "u", "h", "d" >>)
  \/ Includes(lower, << "i", "r", "i", "s" >>)
  \/ (Includes(lower, << "r", "a", "d", "e", "o", "n" >>) /\ Includes(lower, << "g", "r", "a", "p", "h", "i", "c", "s" >>))
  \/ Includes(lower, << "v", "e", "g", "a" >>)
  \/ Includes(lower, << "a", "n", "g", "l", "e" >>)

\* the indexes of the patterns that match
MatchingPatterns(lower) ==
  {k \in 1..Len(vramPatterns) : PatternTest(vramPatterns[k].pattern, lower)}

\* the loop of estimateVRAMFromPattern with the last matching pattern
\* deciding
LastPatternOrKeyword(matching, gpuModel, systemRAM) ==
  IF matching # {}
  THEN vramPatterns[CHOOSE k \in matching : \A j \in matching : j <= k].vram
  ELSE IF HasIntegratedKeyword(ToLowerCase(gpuModel))
  THEN estimateIntegratedGPUVRAM(gpuModel, systemRAM)
  ELSE 6

\* the loop and the end of estimateVRAMFromPattern: the first pattern that
\* matches decides; without one, a name with an integrated keyword goes to
\* the shared-memory estimator and any other name gets 6
FirstPatternOrKeyword(matching, gpuModel, systemRAM) ==
  IF matching # {} THEN vramPatterns[MinOf(matching)].vram
  ELSE IF HasIntegratedKeyword(ToLowerCase(gpuModel))
  THEN estimateIntegratedGPUVRAM(gpuModel, systemRAM)
  ELSE 6

\* estimateVRAMFromPattern
estimateVRAMFromPattern(gpuModel, systemRAM) ==
  FirstPatternOrKeyword(MatchingPatterns(ToLowerCase(gpuModel)), gpuModel, systemRAM)

\* Math.max(...values)
MaxOf(values) ==
  CHOOSE m \in {values[k] : k \in 1..Len(values)} :
    \A k \in 1..Len(values) : values[k] <= m

\* the records of the exact match: model and manufacturer in the name
ExactMatches(database, normalized) ==
  {k \in 1..Len(database) :
     /\ Includes(normalized, ToLowerCase(database[k].model))
     /\ Includes(normalized, ToLowerCase(database[k].manufacturer))}

\* the records of the partial match: the model in the name
PartialMatches(database, normalized) ==
  {k \in 1..Len(database) : Includes(normalized, ToLowerCase(database[k].model))}

\* Array.prototype.find: the first index of a set of indexes, 0 for undefined
Find(indexes) == IF indexes # {} THEN MinOf(indexes) ELSE 0

\* `if (!match)`: the second find counts only when the first found nothing
FirstFound(exact, partial) == IF exact > 0 THEN exact ELSE partial

\* one find over the model name alone, for the two finds of findGPUSpec
FirstModelMatch(database, normalized) == Find(PartialMatches(database, normalized))

\* the index of `match` after the two finds of findGPUSpec, 0 for undefined
MatchIndex(database, normalized) ==
  FirstFound(Find(ExactMatches(database, normalized)),
             Find(PartialMatches(database, normalized)))

\* the vram of a match with the test of match.type left out: an integrated
\* record that declares a size returns that size
DeclaredVRAM(match, detectedGPUName, systemRAM) ==
  IF match.vramGB.kind = "shared"
  THEN estimateIntegratedGPUVRAM(detectedGPUName, systemRAM)
  ELSE IF match.vramGB.kind = "array" THEN MaxOf(match.vramGB.values)
  ELSE match.vramGB.value

\* the vram returned for a match
MatchedVRAM(match, detectedGPUName, systemRAM) ==
  IF match.type = "Integrated" \/ match.vramGB.kind = "shared"
  THEN estimateIntegratedGPUVRAM(detectedGPUName, systemRAM)
  ELSE IF match.vramGB.kind = "array" THEN MaxOf(match.vramGB.values)
  ELSE match.vramGB.value

\* a tag outside the two of the return type when nothing matched
UntaggedWhenUnmatched(index) == IF index > 0 THEN "database" ELSE "unknown"

\* the source tag findGPUSpec returns, by the index of the match
SourceTag(index) == IF index > 0 THEN "database" ELSE "estimated"

\* what findGPUSpec returns once `match` is known
Resolved(index, database, detectedGPUName, systemRAM) ==
  [vram |-> IF index > 0
            THEN MatchedVRAM(database[index], detectedGPUName, systemRAM)
            ELSE estimateVRAMFromPattern(detectedGPUName, systemRAM),
   source |-> SourceTag(index)]

\* findGPUSpec, on the gpuDatabase the module holds
findGPUSpec(detectedGPUName, systemRAM, database) ==
  Resolved(MatchIndex(database, ToLowerCase(detectedGPUName)),
           database, detectedGPUName, systemRAM)

(***************************************************************************)
(* The names, the hints and the databases the resolver is run on           *)
(***************************************************************************)
NameRadeon890M == << "R", "a", "d", "e", "o", "n", " ", "8", "9", "0", "M" >>
NameAMDRadeon890M == << "A", "M", "D", " ", "R", "a", "d", "e", "o", "n", "(", "T", "M", ")", " ", "8", "9", "0", "M", " ", "G", "r", "a", "p", "h", "i", "c", "s" >>
NameGeForce4060 == << "N", "V", "I", "D", "I", "A", " ", "G", "e", "F", "o", "r", "c", "e", " ", "R", "T", "X", " ", "4", "0", "6", "0" >>
NameRtx4070Ti == << "r", "t", "x", "4", "0", "7", "0", " ", " ", "t", "i" >>
NameIntelUHD == << "I", "n", "t", "e", "l", "(", "R", ")", " ", "U", "H", "D", " ", "G", "r", "a", "p", "h", "i", "c", "s", " ", "6", "2", "0" >>
NameAngleM2Max == << "A", "N", "G", "L", "E", " ", "(", "A", "p", "p", "l", "e", ",", " ", "A", "p", "p", "l", "e", " ", "M", "2", " ", "M", "a", "x", ")" >>
NameUnknownGPU == << "U", "n", "k", "n", "o", "w", "n", " ", "G", "P", "U" >>
NameVega8 == << "R", "a", "d", "e", "o", "n", " ", "V", "e", "g", "a", " ", "8" >>
NameRadeonPro == << "R", "a", "d", "e", "o", "n", " ", "P", "r", "o", " ", "W", "5", "7", "0", "0" >>
NameEmpty == << >>
NameRX7900XTX == << "A", "M", "D", " ", "R", "a", "d", "e", "o", "n", " ", "R", "X", " ", "7", "9", "0", "0", " ", "X", "T", "X" >>

GPUNames ==
  {NameRadeon890M, NameAMDRadeon890M, NameGeForce4060, NameRtx4070Ti, NameIntelUHD,
    NameAngleM2Max, NameUnknownGPU, NameVega8, NameRadeonPro, NameEmpty,
   NameRX7900XTX}

\* no hint, a hint of 0, and hints below and above the caps of the tiers
SystemRAMs ==
  {NoSystemRAM, SystemRAM(0), SystemRAM(3), SystemRAM(8), SystemRAM(16), SystemRAM(64)}

\* a record that tags the 890M integrated with shared memory, discrete
\* records with one size and with several, an integrated record that
\* declares a size, and two records for one model name of which the first
\* carries another manufacturer
Rec890M == GPUSpec(<< "A", "M", "D" >>, << "R", "a", "d", "e", "o", "n", " ", "8", "9", "0", "M" >>, "Integrated", SharedVRAM)
RecVendor4060 == GPUSpec(<< "Z", "o", "t", "a", "c" >>, << "R", "T", "X", " ", "4", "0", "6", "0" >>, "Discrete", SingleVRAM(8))
RecGeForce4060 ==
  GPUSpec(<< "N", "V", "I", "D", "I", "A" >>, << "G", "e", "F", "o", "r", "c", "e", " ", "R", "T", "X", " ", "4", "0", "6", "0" >>, "Discrete", VRAMOptions(<< 8, 16 >>))
RecUHD == GPUSpec(<< "I", "n", "t", "e", "l" >>, << "U", "H", "D", " ", "G", "r", "a", "p", "h", "i", "c", "s" >>, "Integrated", SingleVRAM(2))
RecRadeonPro == GPUSpec(<< "A", "M", "D" >>, << "R", "a", "d", "e", "o", "n", " ", "P", "r", "o", " ", "W", "5", "7", "0", "0" >>, "Discrete", SingleVRAM(0))

RecordPool == {Rec890M, RecVendor4060, RecGeForce4060, RecUHD, RecRadeonPro}

\* the longest database
MaxDatabase == 2

\* the databases: sequences of distinct records
Databases ==
  UNION {
    {d \in [1..n -> RecordPool] : \A i, j \in 1..n : i # j => d[i] # d[j]}
    : n \in 0..MaxDatabase}

(***************************************************************************)
(* The persisted profile: saveHardwareSpecs, loadHardwareSpecs and          *)
(* clearHardwareSpecs over the localStorage item under STORAGE_KEY          *)
(***************************************************************************)

\* localStorage.getItem(STORAGE_KEY) === null
NoItem ==
  [present |-> FALSE, keys |-> {}, vram |-> 0, ram |-> 0, cores |-> 0,
   priority |-> "balanced", acceptableQuality |-> "absent", selectedUseCases |-> << >>]

\* JSON.stringify(specs): the keys of the members that are not undefined,
\* and the values at the leaves
JSONStringify(specs) ==
  [present |-> TRUE,
   keys |-> {"ram"} \cup (IF specs.gpu.present THEN {"gpu"} ELSE {})
              \cup (IF specs.cpu.present THEN {"cpu"} ELSE {})
              \cup (IF specs.preferences.present THEN {"preferences"} ELSE {}),
   vram |-> IF specs.gpu.present THEN specs.gpu.vram ELSE 0,
   ram |-> specs.ram,
   cores |-> IF specs.cpu.present THEN specs.cpu.cores ELSE 0,
   priority |-> specs.preferences.priority,
   acceptableQuality |-> specs.preferences.acceptableQuality,
   selectedUseCases |-> specs.preferences.selectedUseCases]

\* JSON.parse(data): a member for every key of the text
JSONParse(data) ==
  [gpu |-> IF "gpu" \in data.keys THEN [present |-> TRUE, vram |-> data.vram]
           ELSE NoGPU,
   ram |-> data.ram,
   cpu |-> IF "cpu" \in data.keys THEN [present |-> TRUE, cores |-> data.cores]
           ELSE NoCPU,
   preferences |->
     IF "preferences" \in data.keys
     THEN [present |-> TRUE, priority |-> data.priority,
           acceptableQuality |-> data.acceptableQuality,
           selectedUseCases |-> data.selectedUseCases]
     ELSE NoPreferences]

\* the profile of the engine before any call, which also fills the place of
\* the profile in a null
NoProfile == [gpu |-> NoGPU, ram |-> 0, cpu |-> NoCPU, preferences |-> NoPreferences]

\* HardwareSpecs | null
Null == [isNull |-> TRUE, specs |-> NoProfile]
Specs(specs) == [isNull |-> FALSE, specs |-> specs]

\* saveHardwareSpecs writing only when nothing is stored
saveWhenEmpty(item, specs) == IF item.present THEN item ELSE JSONStringify(specs)

\* saveHardwareSpecs: localStorage.setItem(STORAGE_KEY, JSON.stringify(specs)),
\* the item after the call
saveHardwareSpecs(item, specs) == JSONStringify(specs)

\* loadHardwareSpecs: data ? JSON.parse(data) : null
loadHardwareSpecs(item) == IF item.present THEN Specs(JSONParse(item)) ELSE Null

\* clearHardwareSpecs: localStorage.removeItem(STORAGE_KEY), the item after
\* the call
clearHardwareSpecs(item) == NoItem

(***************************************************************************)
(* State                                                                   *)
(***************************************************************************)
VARIABLES
  hardware,      \* the hardware profile the engine is called with
  models,        \* the catalog
  filters,       \* the filters argument of recommendModels
  called,        \* whether recommendModels has returned
  returned,      \* what recommendModels returned
  gpuDatabase,   \* `let gpuDatabase: GPUSpec[] = []` of the resolver's module
  gpuModel,      \* the name findGPUSpec was last called with ...
  ramHint,       \* ... and the systemRAM argument of that call
  found,         \* whether findGPUSpec has returned
  gpuSpec,       \* what findGPUSpec returned
  given,         \* the array sortModels is called with
  sortCalled,    \* whether sortModels has returned
  sortedBy,      \* the sortBy argument of that call
  sorted,        \* the array sortModels returned
  givenAfter,    \* the array sortModels was called with, after the call
  storage,       \* the localStorage item under STORAGE_KEY
  saved,         \* history: the profile of the last save no clear followed
  route,         \* the page the router shows
  entered,       \* whether the effect of RecommendationsPage has run
  pageHardware,  \* RecommendationsPage's state `hardware`
  pageModels,    \* RecommendationsPage's state `models`
  recommendations, \* RecommendationsPage's state `recommendations`
  sortBy,        \* RecommendationsPage's state `sortBy`
  loading,       \* RecommendationsPage's state `loading`
  requested,     \* whether the fetch of /data/models.json is in flight
  original,      \* history: what recommendModels returned to the page
  loadCalls,     \* where each call of loadGPUDatabase stands
  loadResults,   \* what each call of loadGPUDatabase returned
  gpuFile,       \* the records of /data/gpu_database.json
  fetches,       \* history: how many fetches loadGPUDatabase issued
  stores         \* history: how many times a fetch was stored in gpuDatabase

engineVars == << hardware, models, filters, called, returned >>
resolverVars == << gpuDatabase, gpuModel, ramHint, found, gpuSpec >>
sortVars == << given, sortCalled, sortedBy, sorted, givenAfter >>
pageVars ==
  << storage, saved, route, entered, pageHardware, pageModels, recommendations,
     sortBy, loading, requested, original >>
loaderVars == << loadCalls, loadResults, gpuFile, fetches, stores >>
vars == << engineVars, resolverVars, sortVars, pageVars, loaderVars >>

\* the engine before any call, on a fixed profile
EngineIdle ==
  /\ hardware = NoProfile
  /\ models = << >>
  /\ filters = NoFilters
  /\ called = FALSE
  /\ returned = << >>

\* the resolver's module before the database is loaded and before any call
ResolverIdle ==
  /\ gpuDatabase = << >>
  /\ gpuModel = << >>
  /\ ramHint = NoSystemRAM
  /\ found = FALSE
  /\ gpuSpec = [vram |-> 0, source |-> "none"]

\* sortModels before any call
SortIdle ==
  /\ given = << >>
  /\ sortCalled = FALSE
  /\ sortedBy = "score"
  /\ sorted = << >>
  /\ givenAfter = << >>

\* RecommendationsPage as useState leaves it when it mounts
PageMounted ==
  /\ entered = FALSE
  /\ pageHardware = Null
  /\ pageModels = << >>
  /\ recommendations = << >>
  /\ sortBy = "score"
  /\ loading = TRUE
  /\ requested = FALSE
  /\ original = << >>

\* nothing stored, the hardware page shown
PageIdle ==
  /\ storage = NoItem
  /\ saved = Null
  /\ route = "/hardware"
  /\ PageMounted

\* no call of loadGPUDatabase begun
LoaderIdle ==
  /\ loadCalls = << >>
  /\ loadResults = << >>
  /\ gpuFile = << >>
  /\ fetches = 0
  /\ stores = 0

OtherVars == << sortVars, pageVars, loaderVars >>

(***************************************************************************)
(* Spec: recommendModels run on a profile, a catalog and filters           *)
(***************************************************************************)
Init ==
  /\ hardware \in Hardwares
  /\ models \in Catalogs
  /\ filters \in FilterSets
  /\ called = FALSE
  /\ returned = << >>
  /\ ResolverIdle
  /\ SortIdle
  /\ PageIdle
  /\ LoaderIdle

\* a call of recommendModels(hardware, models, filters)
RecommendModels ==
  /\ called' = TRUE
  /\ returned' = recommendModels(hardware, models, filters)
  /\ UNCHANGED << hardware, models, filters, resolverVars, OtherVars >>

Next == RecommendModels

Spec == Init /\ [][Next]_vars

(***************************************************************************)
(* SpecResolver: the reference database is loaded and findGPUSpec is       *)
(* called on names and hints                                               *)
(***************************************************************************)
InitResolver ==
  /\ EngineIdle
  /\ ResolverIdle
  /\ SortIdle
  /\ PageIdle
  /\ LoaderIdle

\* loadGPUDatabase: a database already loaded is kept; otherwise the fetch
\* stores the records it read, or fails and leaves the database empty.  The
\* record of an earlier call of findGPUSpec is dropped with the database
\* the call was answered from.
LoadGPUDatabase ==
  /\ Len(gpuDatabase) = 0
  /\ gpuDatabase' \in Databases
  /\ gpuModel' = << >>
  /\ ramHint' = NoSystemRAM
  /\ found' = FALSE
  /\ gpuSpec' = [vram |-> 0, source |-> "none"]
  /\ UNCHANGED << engineVars, OtherVars >>

\* a call of findGPUSpec(detectedGPUName, systemRAM).  findGPUSpec changes
\* nothing in its module, so a behaviour follows one call per database.
FindGPUSpec ==
  \E detectedGPUName \in GPUNames, systemRAM \in SystemRAMs :
    /\ ~found
    /\ gpuModel' = detectedGPUName
    /\ ramHint' = systemRAM
    /\ found' = TRUE
    /\ gpuSpec' = findGPUSpec(detectedGPUName, systemRAM, gpuDatabase)
    /\ UNCHANGED << gpuDatabase, engineVars, OtherVars >>

NextResolver == LoadGPUDatabase \/ FindGPUSpec

SpecResolver == InitResolver /\ [][NextResolver]_vars

(***************************************************************************)
(* SpecSort: sortModels called on a result of recommendModels, in the      *)
(* order recommendModels returned it or in the reverse order                *)
(***************************************************************************)
Reverse(seq) == [i \in 1..Len(seq) |-> seq[Len(seq) + 1 - i]]

\* profiles as ManualInputForm submits them (a gpu and a cpu member, no
\* preferences), and a profile without a GPU
SortProfiles ==
  {[gpu |-> GPU(24), ram |-> 32, cpu |-> CPU(4), preferences |-> NoPreferences],
   [gpu |-> GPU(8), ram |-> 16, cpu |-> CPU(2), preferences |-> NoPreferences],
   [gpu |-> GPU(0), ram |-> 16, cpu |-> CPU(4), preferences |-> NoPreferences],
   [gpu |-> NoGPU, ram |-> 32, cpu |-> NoCPU, preferences |-> NoPreferences]}

\* contents of /data/models.json with three models
PageCatalogs ==
  {<< >>,
   << Twin7B, Mistral7B, PhiMini >>,
   << Llama13B, Unlabelled, Llama70B >>}

SortModes == {"score", "vram", "size", "context", "efficiency"}

InitSort ==
  /\ hardware \in SortProfiles
  /\ models \in Catalogs \cup PageCatalogs
  /\ filters = NoFilters
  /\ called = FALSE
  /\ returned = << >>
  /\ given \in {recommendModels(hardware, models, filters),
                Reverse(recommendModels(hardware, models, filters))}
  /\ sortCalled = FALSE
  /\ sortedBy = "score"
  /\ sorted = << >>
  /\ givenAfter = << >>
  /\ ResolverIdle
  /\ PageIdle
  /\ LoaderIdle

\* a call of sortModels(given, mode)
SortModels ==
  \E mode \in SortModes :
    /\ ~sortCalled
    /\ sortCalled' = TRUE
    /\ sortedBy' = mode
    /\ sorted' = sortModels(given, mode)
    /\ givenAfter' = ArgumentAfterSort(given, mode)
    /\ UNCHANGED << given, engineVars, resolverVars, pageVars, loaderVars >>

NextSort == SortModels

SpecSort == InitSort /\ [][NextSort]_vars

(***************************************************************************)
(* SpecPage: the hardware page saves a profile and opens the                *)
(* recommendations page, which loads it, computes the recommendations and  *)
(* re-sorts them on demand                                                  *)
(***************************************************************************)

\* the profiles submitted
PageProfiles ==
  {[gpu |-> GPU(24), ram |-> 32, cpu |-> CPU(4), preferences |-> NoPreferences],
   [gpu |-> GPU(8), ram |-> 16, cpu |-> CPU(2), preferences |-> NoPreferences],
   [gpu |-> GPU(0), ram |-> 0, cpu |-> CPU(0), preferences |-> NoPreferences]}

\* the modes the page's buttons pass to handleSortChange
PageSorts == {"score", "vram", "size", "context"}

InitPage ==
  /\ EngineIdle
  /\ ResolverIdle
  /\ SortIdle
  /\ LoaderIdle
  /\ storage = NoItem
  /\ saved = Null
  /\ route \in {"/hardware", "/recommendations"}
  /\ PageMounted

\* handleSubmit of HardwarePage: saveHardwareSpecs(specs) and
\* router.push('/recommendations'), which mounts RecommendationsPage
HandleSubmit ==
  \E specs \in PageProfiles :
    /\ route = "/hardware"
    /\ storage' = saveHardwareSpecs(storage, specs)
    /\ saved' = Specs(specs)
    /\ route' = "/recommendations"
    /\ entered' = FALSE
    /\ pageHardware' = Null
    /\ pageModels' = << >>
    /\ recommendations' = << >>
    /\ sortBy' = "score"
    /\ loading' = TRUE
    /\ requested' = FALSE
    /\ original' = << >>
    /\ UNCHANGED << engineVars, resolverVars, sortVars, loaderVars >>

\* clearHardwareSpecs, on demand
ClearHardwareSpecs ==
  /\ storage' = clearHardwareSpecs(storage)
  /\ saved' = Null
  /\ UNCHANGED << route, entered, pageHardware, pageModels, recommendations,
                  sortBy, loading, requested, original >>
  /\ UNCHANGED << engineVars, resolverVars, sortVars, loaderVars >>

\* the effect of RecommendationsPage up to the fetch: without stored specs
\* router.push('/hardware') and return, with them setHardware(specs) and
\* fetch('/data/models.json')
PageEntry ==
  /\ route = "/recommendations"
  /\ ~entered
  /\ entered' = TRUE
  /\ IF loadHardwareSpecs(storage).isNull
     THEN /\ route' = "/hardware"
          /\ UNCHANGED << pageHardware, requested >>
     ELSE /\ pageHardware' = loadHardwareSpecs(storage)
          /\ requested' = TRUE
          /\ UNCHANGED route
  /\ UNCHANGED << storage, saved, pageModels, recommendations, sortBy, loading, original >>
  /\ UNCHANGED << engineVars, resolverVars, sortVars, loaderVars >>

\* the response of the fetch: setModels(data),
\* setRecommendations(recommendModels(specs, data)), setLoading(false)
ModelsLoaded ==
  \E data \in PageCatalogs :
    /\ route = "/recommendations"
    /\ requested
    /\ requested' = FALSE
    /\ pageModels' = data
    /\ recommendations' = recommendModels(pageHardware.specs, data, NoFilters)
    /\ original' = recommendModels(pageHardware.specs, data, NoFilters)
    /\ loading' = FALSE
    /\ UNCHANGED << storage, saved, route, entered, pageHardware, sortBy >>
    /\ UNCHANGED << engineVars, resolverVars, sortVars, loaderVars >>

\* the fetch fails: setLoading(false)
ModelsFailed ==
  /\ route = "/recommendations"
  /\ requested
  /\ requested' = FALSE
  /\ loading' = FALSE
  /\ UNCHANGED << storage, saved, route, entered, pageHardware, pageModels,
                  recommendations, sortBy, original >>
  /\ UNCHANGED << engineVars, resolverVars, sortVars, loaderVars >>

\* handleSortChange(newSort), from the buttons the page renders once it has
\* stopped loading with a profile
HandleSortChange ==
  \E newSort \in PageSorts :
    /\ route = "/recommendations"
    /\ ~loading
    /\ ~pageHardware.isNull
    /\ sortBy' = newSort
    /\ recommendations' = sortModels(recommendations, newSort)
    /\ UNCHANGED << storage, saved, route, entered, pageHardware, pageModels,
                    loading, requested, original >>
    /\ UNCHANGED << engineVars, resolverVars, sortVars, loaderVars >>

\* the visitor follows a link to /hardware; RecommendationsPage unmounts
\* and a response still under way changes nothing that is shown
OpenHardwarePage ==
  /\ route = "/recommendations"
  /\ route' = "/hardware"
  /\ requested' = FALSE
  /\ UNCHANGED << storage, saved, entered, pageHardware, pageModels,
                  recommendations, sortBy, loading, original >>
  /\ UNCHANGED << engineVars, resolverVars, sortVars, loaderVars >>

\* the visitor follows a link to /recommendations, which mounts
\* RecommendationsPage
OpenRecommendationsPage ==
  /\ route = "/hardware"
  /\ route' = "/recommendations"
  /\ entered' = FALSE
  /\ pageHardware' = Null
  /\ pageModels' = << >>
  /\ recommendations' = << >>
  /\ sortBy' = "score"
  /\ loading' = TRUE
  /\ requested' = FALSE
  /\ original' = << >>
  /\ UNCHANGED << storage, saved >>
  /\ UNCHANGED << engineVars, resolverVars, sortVars, loaderVars >>

NextPage ==
  \/ HandleSubmit
  \/ ClearHardwareSpecs
  \/ PageEntry
  \/ ModelsLoaded
  \/ ModelsFailed
  \/ HandleSortChange
  \/ OpenHardwarePage
  \/ OpenRecommendationsPage

SpecPage == InitPage /\ [][NextPage]_vars

(***************************************************************************)
(* SpecLoader: calls of loadGPUDatabase, each suspended at its awaits      *)
(***************************************************************************)

\* how many calls of loadGPUDatabase a behaviour holds
MaxCalls == 3

Calls == 1..MaxCalls

InitLoader ==
  /\ EngineIdle
  /\ ResolverIdle
  /\ SortIdle
  /\ PageIdle
  /\ loadCalls = [c \in Calls |-> "idle"]
  /\ loadResults = [c \in Calls |-> << >>]
  /\ gpuFile \in Databases \ {<< >>}
  /\ fetches = 0
  /\ stores = 0

\* a call runs to its first await: a database already loaded is returned,
\* otherwise fetch('/data/gpu_database.json') is issued
StartLoad ==
  \E c \in Calls :
    /\ loadCalls[c] = "idle"
    /\ IF Len(gpuDatabase) > 0
       THEN /\ loadCalls' = [loadCalls EXCEPT ![c] = "returned"]
            /\ loadResults' = [loadResults EXCEPT ![c] = gpuDatabase]
            /\ UNCHANGED fetches
       ELSE /\ loadCalls' = [loadCalls EXCEPT ![c] = "fetching"]
            /\ fetches' = fetches + 1
            /\ UNCHANGED loadResults
    /\ UNCHANGED << gpuDatabase, gpuModel, ramHint, found, gpuSpec, gpuFile, stores >>
    /\ UNCHANGED << engineVars, sortVars, pageVars >>

\* the fetch resolves with response.ok: the call goes on to
\* await response.json()
FetchResponds ==
  \E c \in Calls :
    /\ loadCalls[c] = "fetching"
    /\ loadCalls' = [loadCalls EXCEPT ![c] = "parsing"]
    /\ UNCHANGED << loadResults, gpuFile, fetches, stores >>
    /\ UNCHANGED << engineVars, resolverVars, sortVars, pageVars >>

\* the fetch rejects, resolves without response.ok, or the body fails to
\* parse: return []
FetchFails ==
  \E c \in Calls :
    /\ loadCalls[c] \in {"fetching", "parsing"}
    /\ loadCalls' = [loadCalls EXCEPT ![c] = "returned"]
    /\ loadResults' = [loadResults EXCEPT ![c] = << >>]
    /\ UNCHANGED << gpuFile, fetches, stores >>
    /\ UNCHANGED << engineVars, resolverVars, sortVars, pageVars >>

\* gpuDatabase = await response.json(); return gpuDatabase
StoreDatabase ==
  \E c \in Calls :
    /\ loadCalls[c] = "parsing"
    /\ gpuDatabase' = gpuFile
    /\ stores' = stores + 1
    /\ loadCalls' = [loadCalls EXCEPT ![c] = "returned"]
    /\ loadResults' = [loadResults EXCEPT ![c] = gpuFile]
    /\ UNCHANGED << gpuModel, ramHint, found, gpuSpec, gpuFile, fetches >>
    /\ UNCHANGED << engineVars, sortVars, pageVars >>

NextLoader == StartLoad \/ FetchResponds \/ FetchFails \/ StoreDatabase

SpecLoader == InitLoader /\ [][NextLoader]_vars

(***************************************************************************)
(* Properties of the result of recommendModels                             *)
(***************************************************************************)

\* the entries of the result that recommend the catalog's i-th model
EntriesOf(i) == {k \in 1..Len(returned) : returned[k].model = models[i]}

\* C1: every variant listed in every entry of the result needs no more RAM
\* than the profile has and, when the profile has a GPU, no more VRAM than
\* the GPU has; so every entry lists at least one variant within capacity.
C1_ListedVariantsWithinCapacity ==
  called =>
    \A k \in 1..Len(returned) :
      /\ Len(returned[k].variants) >= 1
      /\ \A n \in 1..Len(returned[k].variants) :
           LET v == returned[k].variants[n].variant
           IN /\ v.ramRequired <= hardware.ram
              /\ hardware.gpu.present => v.vramRequired <= hardware.gpu.vram

\* a GPU profile for which an entry was returned although its model has a
\* variant beyond the GPU's capacity and one beyond the RAM
C1_Witness ==
  /\ called
  /\ hardware.gpu.present
  /\ \E k \in 1..Len(returned) :
       /\ \E n \in 1..Len(returned[k].model.variants) :
            returned[k].model.variants[n].vramRequired > hardware.gpu.vram
       /\ \E n \in 1..Len(returned[k].model.variants) :
            returned[k].model.variants[n].ramRequired > hardware.ram

\* C2: the result is sorted by the top assessment's score, descending.
C2_SortedByScoreDescending ==
  called =>
    \A k \in 1..(Len(returned) - 1) :
      returned[k].assessment.score >= returned[k + 1].assessment.score

\* two entries with different scores, returned in the reverse of their
\* catalog order
C2_Witness ==
  /\ called
  /\ Len(returned) = 2
  /\ returned[1].assessment.score > returned[2].assessment.score
  /\ returned[1].model = models[2]
  /\ returned[2].model = models[1]

\* C3: a model is in the result iff one of its variants passes every hard
\* filter, and its entry lists exactly the variants that passed; with a GPU
\* of 8 GB and 16 GB of RAM the 7B model is listed with its Q4_K_M variant
\* alone, and without a GPU and 4 GB of RAM a model needing 8 GB is absent.
C3_ExactlyThePassingVariants ==
  called =>
    /\ \A i \in 1..Len(models) :
         LET passing ==
               {n \in 1..Len(models[i].variants) :
                  PassesHardFilters(models[i], models[i].variants[n], hardware, filters)}
         IN /\ Cardinality(EntriesOf(i)) = IF passing = {} THEN 0 ELSE 1
            /\ \A k \in EntriesOf(i) :
                 /\ Len(returned[k].variants) = Cardinality(passing)
                 /\ {returned[k].variants[n].variant : n \in 1..Len(returned[k].variants)}
                      = {models[i].variants[n] : n \in passing}
    /\ \A k \in 1..Len(returned) : \E i \in 1..Len(models) : k \in EntriesOf(i)
    /\ (hardware.gpu = GPU(8) /\ hardware.ram = 16 /\ ~filters.present) =>
         \A k \in 1..Len(returned) :
           returned[k].model = Mistral7B =>
             /\ Len(returned[k].variants) = 1
             /\ returned[k].variants[1].variant = Variant(Q4_K_M, 5, 8, 4, 8192)
             /\ returned[k].assessment.category \in {"excellent", "good"}
    /\ (~hardware.gpu.present /\ hardware.ram = 4) =>
         \A k \in 1..Len(returned) : \A n \in 1..Len(returned[k].variants) :
           returned[k].variants[n].variant.ramRequired # 8

\* the 8 GB / 16 GB profile on a catalog of the 7B model and a model none of
\* whose variants fits: one entry, with one of the 7B model's two variants
C3_Witness ==
  /\ called
  /\ hardware.gpu = GPU(8) /\ hardware.ram = 16 /\ ~filters.present
  /\ models = << Llama70B, Mistral7B >>
  /\ Len(returned) = 1
  /\ returned[1].model = Mistral7B
  /\ Len(returned[1].variants) = 1

\* the variants listed in the result, each with its model and assessment
Listed ==
  UNION {
    {[model |-> returned[k].model,
      variant |-> returned[k].variants[n].variant,
      assessment |-> returned[k].variants[n].assessment]
       : n \in 1..Len(returned[k].variants)}
    : k \in 1..Len(returned)}

\* C4: a variant that needs exactly the GPU's memory (utilization 1.0) and
\* fits the RAM is listed when no filters are given, and its score is
\* strictly below the score of a listed variant of the same model that
\* differs from it in vramRequired alone and needs half the GPU's memory
\* (utilization 0.5).
C4_FullVRAMListedAndBelowHalf ==
  (called /\ hardware.gpu.present /\ hardware.gpu.vram > 0) =>
    /\ ~filters.present =>
         \A i \in 1..Len(models) : \A n \in 1..Len(models[i].variants) :
           (/\ models[i].variants[n].vramRequired = hardware.gpu.vram
            /\ models[i].variants[n].ramRequired <= hardware.ram)
             => \E e \in Listed :
                  e.model = models[i] /\ e.variant = models[i].variants[n]
    /\ \A full, half \in Listed :
         (/\ full.model = half.model
          /\ full.variant.vramRequired = hardware.gpu.vram
          /\ 2 * half.variant.vramRequired = hardware.gpu.vram
          /\ full.variant = [half.variant EXCEPT !.vramRequired = hardware.gpu.vram])
           => full.assessment.score < half.assessment.score

\* the twin model on the 8 GB GPU: the variant at all of the memory is
\* listed behind the one at half of it
C4_Witness ==
  /\ called
  /\ hardware.gpu = GPU(8)
  /\ \E k \in 1..Len(returned) :
       /\ returned[k].model = Twin7B
       /\ Len(returned[k].variants) = 2
       /\ returned[k].variants[1].variant.vramRequired = 4
       /\ returned[k].variants[2].variant.vramRequired = 8
       /\ returned[k].variants[2].assessment.score
            < returned[k].variants[1].assessment.score

\* the sum of the factor contributions evaluateModel adds to 100, in units
Contributions(model, variant, profile) ==
  LET preferences == IF profile.preferences.present THEN profile.preferences
                     ELSE DefaultPreferences
  IN (evaluateVRAM(profile, variant).scoreImpact
      + evaluateRAM(profile, variant).scoreImpact
      + evaluateContext(model, variant, FirstUseCase(model, preferences)).scoreImpact
      + (IF model.performanceProfile.present
         THEN evaluatePerformanceProfile(model, preferences).scoreImpact ELSE 0)
      + QuantizationBonus(variant)) * Unit
     + evaluateQuality(model, variant, preferences).scoreImpact

\* C5: the score of every listed assessment is max(0, 100 + the sum of the
\* factor contributions); there is no ceiling, so a positive sum gives a
\* score above 100.
C5_ScoreClampedAtFloorOnly ==
  called =>
    \A e \in Listed :
      /\ e.assessment.score
           = Max(0, 100 * Unit + Contributions(e.model, e.variant, hardware))
      /\ Contributions(e.model, e.variant, hardware) > 0
           => e.assessment.score > 100 * Unit

\* a listed assessment whose score is above 100
C5_Witness ==
  /\ called
  /\ \E e \in Listed :
       /\ Contributions(e.model, e.variant, hardware) > 0
       /\ e.assessment.score > 100 * Unit

\* the categories from worst to best
CategoryRank(category) ==
  CASE category = "incompatible" -> 0
    [] category = "poor" -> 1
    [] category = "fair" -> 2
    [] category = "good" -> 3
    [] category = "excellent" -> 4

\* C6: the category of every listed assessment is fixed by its score:
\* >= 90 excellent, >= 70 good, >= 50 fair, >= 30 poor, else incompatible;
\* and of two listed assessments the one with the higher score never has
\* the worse category.
C6_CategoryByScoreThresholds ==
  called =>
    /\ \A e \in Listed :
         e.assessment.category =
           IF e.assessment.score >= 90 * Unit THEN "excellent"
           ELSE IF e.assessment.score >= 70 * Unit THEN "good"
           ELSE IF e.assessment.score >= 50 * Unit THEN "fair"
           ELSE IF e.assessment.score >= 30 * Unit THEN "poor"
           ELSE "incompatible"
    /\ \A a, b \in Listed :
         a.assessment.score >= b.assessment.score
           => CategoryRank(a.assessment.category) >= CategoryRank(b.assessment.category)

\* a result that holds assessments of two different categories
C6_Witness ==
  /\ called
  /\ \E a, b \in Listed :
       /\ a.assessment.score > b.assessment.score
       /\ a.assessment.category = "excellent"
       /\ b.assessment.category = "fair"

(***************************************************************************)
(* Properties of the result of findGPUSpec                                 *)
(***************************************************************************)

\* C8: whatever the name, the hint and the database, findGPUSpec returns a
\* capacity that is a number >= 0 and one of the two source tags.
C8_ResolverTotal ==
  found =>
    /\ gpuSpec.vram \in Nat
    /\ gpuSpec.source \in {"database", "estimated"}

\* a name no record and no pattern matches, resolved without a hint on a
\* database that holds a record with several sizes
C8_Witness ==
  /\ found
  /\ \E k \in 1..Len(gpuDatabase) : gpuDatabase[k].vramGB.kind = "array"
  /\ gpuModel = NameVega8
  /\ ~ramHint.present
  /\ gpuSpec.source = "estimated"

\* the record the result is to come from: the first one whose manufacturer
\* and model are both in the name, else the first one whose model is, else 0
BothContained ==
  {k \in 1..Len(gpuDatabase) :
     /\ Includes(ToLowerCase(gpuModel), ToLowerCase(gpuDatabase[k].manufacturer))
     /\ Includes(ToLowerCase(gpuModel), ToLowerCase(gpuDatabase[k].model))}

ModelContained ==
  {k \in 1..Len(gpuDatabase) :
     Includes(ToLowerCase(gpuModel), ToLowerCase(gpuDatabase[k].model))}

FirstContained ==
  IF BothContained # {} THEN CHOOSE k \in BothContained : \A j \in BothContained : k <= j
  ELSE IF ModelContained # {}
  THEN CHOOSE k \in ModelContained : \A j \in ModelContained : k <= j
  ELSE 0

\* whether the capacity of the last call comes from the shared-memory
\* estimator: the record used is integrated or shared, or no record and no
\* pattern matches and the name has an integrated keyword
UsesSharedMemoryEstimator ==
  IF FirstContained > 0
  THEN \/ gpuDatabase[FirstContained].type = "Integrated"
       \/ gpuDatabase[FirstContained].vramGB.kind = "shared"
  ELSE /\ MatchingPatterns(ToLowerCase(gpuModel)) = {}
       /\ HasIntegratedKeyword(ToLowerCase(gpuModel))

\* min(floor(hint * tierFraction), tierCap) for the tier of the name
TierFormula(name, gb) ==
  LET lower == ToLowerCase(name)
      has(text) == Includes(lower, text)
  IN IF has(<< "7", "8", "0", "m" >>) \/ has(<< "8", "9", "0", "m" >>)
          \/ has(<< "8", "8", "0", "m" >>) \/ has(<< "i", "r", "i", "s", " ", "x", "e" >>)
     THEN Min(gb \div 2, 16)
     ELSE IF has(<< "6", "8", "0", "m" >>) \/ has(<< "7", "6", "0", "m" >>)
          \/ has(<< "6", "6", "0", "m" >>) \/ has(<< "v", "e", "g", "a" >>)
     THEN Min((gb * 2) \div 5, 12)
     ELSE IF has(<< "u", "h", "d" >>) \/ has(<< "i", "n", "t", "e", "l", " ", "h", "d" >>)
     THEN Min(gb \div 4, 8)
     ELSE Min((gb * 3) \div 10, 8)

\* C9: when the shared-memory estimator decides the capacity, the capacity
\* is min(floor(hint * tierFraction), tierCap) for every hint that is
\* present, a hint of 0 included, and 4 only when the hint is absent.
C9_EstimateFromEveryPresentHint ==
  (found /\ UsesSharedMemoryEstimator) =>
    gpuSpec.vram = IF ramHint.present THEN TierFormula(gpuModel, ramHint.gb) ELSE 4

\* C10: the result comes from the first record whose manufacturer and model
\* are both in the name, also when an earlier record has its model alone in
\* the name; from the first record whose model is in the name when no
\* record has both; from the pattern estimator, tagged estimated, only when
\* no record matches.
C10_FirstSuccessInStepOrder ==
  found =>
    IF FirstContained > 0
    THEN /\ gpuSpec.source = "database"
         /\ gpuSpec.vram = MatchedVRAM(gpuDatabase[FirstContained], gpuModel, ramHint)
    ELSE /\ gpuSpec.source = "estimated"
         /\ gpuSpec.vram = estimateVRAMFromPattern(gpuModel, ramHint)

\* the name holds the model of the first record but not its manufacturer,
\* and both the manufacturer and the model of the second: the sizes of the
\* second record decide
C10_Witness ==
  /\ found
  /\ gpuDatabase = << RecVendor4060, RecGeForce4060 >>
  /\ gpuModel = NameGeForce4060
  /\ FirstContained = 2
  /\ gpuSpec = [vram |-> 16, source |-> "database"]

\* the largest of the sizes of the record the result is to come from
LargestSize ==
  CHOOSE m \in {gpuDatabase[FirstContained].vramGB.values[k] :
                  k \in 1..Len(gpuDatabase[FirstContained].vramGB.values)} :
    \A k \in 1..Len(gpuDatabase[FirstContained].vramGB.values) :
      gpuDatabase[FirstContained].vramGB.values[k] <= m

\* C11: when a record matches, the capacity is the shared-memory
\* estimator's result if the record is integrated or its capacity is the
\* shared marker (a size an integrated record declares is ignored), the
\* largest size if the record declares several, and else the one size the
\* record declares.
C11_CapacityOfMatchedRecord ==
  (found /\ FirstContained > 0) =>
    gpuSpec.vram =
      IF \/ gpuDatabase[FirstContained].type = "Integrated"
         \/ gpuDatabase[FirstContained].vramGB.kind = "shared"
      THEN estimateIntegratedGPUVRAM(gpuModel, ramHint)
      ELSE IF gpuDatabase[FirstContained].vramGB.kind = "array" THEN LargestSize
      ELSE gpuDatabase[FirstContained].vramGB.value

\* the integrated record that declares 2 GB matched with a hint of 16: the
\* estimator's 4 is returned, not the 2
C11_Witness ==
  /\ found
  /\ FirstContained > 0
  /\ gpuDatabase[FirstContained] = RecUHD
  /\ ramHint = SystemRAM(16)
  /\ gpuSpec.vram = 4

\* whether the lower-cased name of the last call holds one of the words that
\* mark an integrated chip (radeon only together with graphics)
NameHasIntegratedWord ==
  \/ \E word \in {<< "i", "n", "t", "e", "g", "r", "a", "t", "e", "d" >>,
                  << "i", "n", "t", "e", "l" >>,
                  << "u", "h", "d" >>,
                  << "i", "r", "i", "s" >>,
                  << "v", "e", "g", "a" >>,
                  << "a", "n", "g", "l", "e" >>} :
       Includes(ToLowerCase(gpuModel), word)
  \/ /\ Includes(ToLowerCase(gpuModel), << "r", "a", "d", "e", "o", "n" >>)
     /\ Includes(ToLowerCase(gpuModel), << "g", "r", "a", "p", "h", "i", "c", "s" >>)

\* C12: a name that no record, no pattern and no integrated keyword matches
\* resolves to 6 GB tagged estimated, whatever the hint.
C12_UnknownNameGetsSix ==
  (/\ found
   /\ FirstContained = 0
   /\ MatchingPatterns(ToLowerCase(gpuModel)) = {}
   /\ ~NameHasIntegratedWord)
    => gpuSpec = [vram |-> 6, source |-> "estimated"]

\* a Radeon name without the word graphics, on a database that holds
\* records but none for it, with a hint of 64
C12_Witness ==
  /\ found
  /\ gpuModel = NameRadeonPro
  /\ Len(gpuDatabase) > 0
  /\ FirstContained = 0
  /\ ramHint = SystemRAM(64)
  /\ gpuSpec = [vram |-> 6, source |-> "estimated"]

\* the patterns that match the name of the last call, by their place in
\* the list
PatternsOfName == MatchingPatterns(ToLowerCase(gpuModel))

\* C13: without a database match, the capacity is that of the first pattern
\* in list order that matches the name, case-insensitively: RX 7900 XTX,
\* which the patterns RX 7900 XTX and RX 7900 XT both match, gets the 24 of
\* the earlier one; the keywords decide only when no pattern matches, so a
\* name with a keyword and a pattern gets the pattern's capacity.
C13_FirstPatternInListOrder ==
  (found /\ FirstContained = 0) =>
    /\ PatternsOfName # {} =>
         /\ \E k \in PatternsOfName :
              /\ \A j \in PatternsOfName : k <= j
              /\ gpuSpec.vram = vramPatterns[k].vram
         /\ gpuSpec.source = "estimated"
    /\ gpuModel = NameRX7900XTX => gpuSpec.vram = 24
    /\ gpuModel = NameRtx4070Ti => gpuSpec.vram = 12
    /\ gpuModel = NameAngleM2Max => gpuSpec.vram = 38
    /\ (PatternsOfName = {} /\ NameHasIntegratedWord) =>
         gpuSpec.vram = estimateIntegratedGPUVRAM(gpuModel, ramHint)

\* RX 7900 XTX resolved without a record for it: two patterns match, with
\* different capacities, and the earlier one's is returned
C13_Witness ==
  /\ found
  /\ FirstContained = 0
  /\ gpuModel = NameRX7900XTX
  /\ Cardinality(PatternsOfName) = 2
  /\ \E j, k \in PatternsOfName :
       j < k /\ vramPatterns[j].vram # vramPatterns[k].vram
             /\ gpuSpec.vram = vramPatterns[j].vram

\* how often a text occurs in a sequence of texts
Occurrences(texts, text) == Cardinality({k \in 1..Len(texts) : texts[k] = text})

\* C14: the warnings of every listed assessment hold the VRAM warning once
\* when there is a GPU and vramRequired / capacity > 0.9 and not otherwise,
\* the RAM warning once when ramRequired / RAM > 0.8 and not otherwise, the
\* CPU warning once when a core count below 4 is known and not otherwise,
\* and nothing else; the score plays no part.
C14_WarningsByUtilization ==
  called =>
    \A e \in Listed :
      /\ Occurrences(e.assessment.warnings, "High VRAM usage - performance may be impacted")
           = IF /\ hardware.gpu.present
                /\ 10 * e.variant.vramRequired > 9 * hardware.gpu.vram
             THEN 1 ELSE 0
      /\ Occurrences(e.assessment.warnings, "High RAM usage - close other applications")
           = IF 10 * e.variant.ramRequired > 8 * hardware.ram THEN 1 ELSE 0
      /\ Occurrences(e.assessment.warnings, "Low CPU core count may limit inference speed")
           = IF hardware.cpu.present /\ hardware.cpu.cores < 4 THEN 1 ELSE 0
      /\ \A k \in 1..Len(e.assessment.warnings) :
           e.assessment.warnings[k] \in
             {"High VRAM usage - performance may be impacted",
              "High RAM usage - close other applications",
              "Low CPU core count may limit inference speed"}

\* a result with an assessment that carries all three warnings and, for
\* another variant, one that carries the CPU warning alone
C14_Witness ==
  /\ called
  /\ \E e \in Listed : Len(e.assessment.warnings) = 3
  /\ \E e \in Listed :
       e.assessment.warnings = << "Low CPU core count may limit inference speed" >>

\* the reasons of an assessment that a factor name picks
ReasonsOf(assessment, factor) ==
  {k \in 1..Len(assessment.reasons) : assessment.reasons[k].factor = factor}

\* C15: an assessment whose model-capability reason is rated negative
\* suggests to consider a larger model if hardware permits.
C15_NegativeCapabilitySuggestsLarger ==
  called =>
    \A e \in Listed :
      (\E k \in ReasonsOf(e.assessment, "Model Capability") :
         e.assessment.reasons[k].rating = "negative")
        => \E n \in 1..Len(e.assessment.recommendations) :
             e.assessment.recommendations[n] = "Consider a larger model if hardware permits"

\* C16: the suggestions of an assessment of category poor or incompatible
\* start with the suggestion to consider a smaller model or upgrading the
\* hardware; the suggestions of an assessment of category excellent, good
\* or fair do not hold it.
C16_GeneralSuggestionFirst ==
  called =>
    \A e \in Listed :
      IF e.assessment.category \in {"poor", "incompatible"}
      THEN /\ Len(e.assessment.recommendations) >= 1
           /\ e.assessment.recommendations[1]
                = "Consider a smaller model or upgrading your hardware"
      ELSE \A n \in 1..Len(e.assessment.recommendations) :
             e.assessment.recommendations[n]
               # "Consider a smaller model or upgrading your hardware"

\* a poor assessment whose suggestions hold another suggestion behind the
\* general one, next to an assessment of a better category that has
\* suggestions too
C16_Witness ==
  /\ called
  /\ \E e \in Listed :
       /\ e.assessment.category = "poor"
       /\ Len(e.assessment.recommendations) >= 2
       /\ e.assessment.recommendations[1]
            = "Consider a smaller model or upgrading your hardware"
  /\ \E e \in Listed :
       /\ e.assessment.category \in {"excellent", "good", "fair"}
       /\ Len(e.assessment.recommendations) >= 1

\* the place of a variant in its model's catalog list
CatalogIndex(model, variant) ==
  CHOOSE i \in 1..Len(model.variants) : model.variants[i] = variant

\* C17: in every entry the variants are listed by score, descending, and
\* variants of equal score in their catalog order; the default variant is
\* the first of the list, the listed variant with the highest score and
\* among those the earliest in the catalog; the entry's assessment is the
\* assessment of that variant.
C17_VariantsByScoreStable ==
  called =>
    \A k \in 1..Len(returned) :
      /\ \A n, m \in 1..Len(returned[k].variants) :
           n < m =>
             \/ returned[k].variants[n].assessment.score
                  > returned[k].variants[m].assessment.score
             \/ /\ returned[k].variants[n].assessment.score
                     = returned[k].variants[m].assessment.score
                /\ CatalogIndex(returned[k].model, returned[k].variants[n].variant)
                     < CatalogIndex(returned[k].model, returned[k].variants[m].variant)
      /\ returned[k].defaultVariant = returned[k].variants[1].variant
      /\ returned[k].assessment = returned[k].variants[1].assessment

\* the twin model on the 24 GB GPU: its variants at 8, 4 and 12 GB have one
\* score and stay in catalog order, in front of the one at 24 GB that the
\* catalog lists third
C17_Witness ==
  /\ called
  /\ hardware.gpu = GPU(24)
  /\ \E k \in 1..Len(returned) :
       /\ returned[k].model = Twin7B
       /\ Len(returned[k].variants) = 4
       /\ [n \in 1..4 |-> returned[k].variants[n].variant.vramRequired]
            = << 8, 4, 12, 24 >>
       /\ returned[k].variants[1].assessment.score
            = returned[k].variants[3].assessment.score
       /\ returned[k].defaultVariant = Twin7B.variants[1]

\* the factor names the profile evaluator gives its reason
ProfileFactors == {"Speed", "Quality Level", "Performance"}

\* C18: every listed assessment has exactly one reason for each of the six
\* scoring factors: VRAM, RAM, model capability, context window, the
\* performance profile and the quantization, six reasons in all.
C18_OneReasonPerFactor ==
  called =>
    \A e \in Listed :
      /\ \A factor \in {"VRAM", "RAM", "Model Capability", "Context Window"} :
           Cardinality(ReasonsOf(e.assessment, factor)) = 1
      /\ Cardinality({k \in 1..Len(e.assessment.reasons) :
                        e.assessment.reasons[k].factor \in ProfileFactors}) = 1
      /\ Cardinality({k \in 1..Len(e.assessment.reasons) :
                        e.assessment.reasons[k].factor
                          \notin ProfileFactors
                                   \cup {"VRAM", "RAM", "Model Capability", "Context Window"}})
           = 1

\* the preferences evaluateModel is called with on the profile
PreferencesInUse ==
  IF hardware.preferences.present THEN hardware.preferences ELSE DefaultPreferences

\* what the factor evaluators return for a variant of a model on the
\* profile: each a reason and the contribution to the score
FactorResults(model, variant) ==
  {evaluateVRAM(hardware, variant),
   evaluateRAM(hardware, variant),
   evaluateQuality(model, variant, PreferencesInUse),
   evaluateContext(model, variant, FirstUseCase(model, PreferencesInUse))}
  \cup (IF model.performanceProfile.present
        THEN {evaluatePerformanceProfile(model, PreferencesInUse)} ELSE {})

\* C19: the rating of every reason of a listed assessment agrees with the
\* contribution of its factor: a reason rated positive belongs to a factor
\* that did not lower the score, a reason rated negative to one that did
\* not raise it.
C19_RatingFollowsContribution ==
  called =>
    \A e \in Listed :
      \A result \in FactorResults(e.model, e.variant) :
        (\E k \in 1..Len(e.assessment.reasons) :
           e.assessment.reasons[k] = result.reason)
          => /\ result.reason.rating = "positive" => result.scoreImpact >= 0
             /\ result.reason.rating = "negative" => result.scoreImpact <= 0

\* C20: every variant listed in the result satisfies every threshold the
\* filters supply, a threshold of 0 included: vramRequired <= maxVRAM,
\* ramRequired <= maxRAM, contextWindow >= minContextWindow; and with a
\* non-empty useCases filter every model in the result has one of the
\* requested use cases.
C20_SuppliedFiltersHold ==
  (called /\ filters.present) =>
    \A e \in Listed :
      /\ filters.hasMaxVRAM => e.variant.vramRequired <= filters.maxVRAM
      /\ filters.hasMaxRAM => e.variant.ramRequired <= filters.maxRAM
      /\ filters.hasMinContextWindow => e.variant.contextWindow >= filters.minContextWindow
      /\ (filters.hasUseCases /\ Len(filters.useCases) > 0) =>
           \E i \in 1..Len(filters.useCases), j \in 1..Len(e.model.useCases) :
             filters.useCases[i] = e.model.useCases[j]

\* C24: on every profile (GPU absent or of any capacity from 0, RAM from 0,
\* CPU and preferences absent or present) and every catalog, models without
\* metrics, profile or recommended contexts included, recommendModels
\* returns a result, and every assessment in it, the entries' top
\* assessments included, has a number >= 0 for its score and one of the
\* five categories.
C24_EvaluationTotal ==
  called =>
    /\ \A e \in Listed :
         /\ e.assessment.score \in Nat
         /\ e.assessment.category \in {"excellent", "good", "fair", "poor", "incompatible"}
    /\ \A k \in 1..Len(returned) :
         /\ returned[k].assessment.score \in Nat
         /\ returned[k].assessment.category
              \in {"excellent", "good", "fair", "poor", "incompatible"}

\* a GPU of capacity 0 and no RAM, where both utilizations are 0 / 0, with
\* neither CPU nor preferences: the variant that needs no memory is assessed
C24_Witness ==
  /\ called
  /\ hardware = [gpu |-> GPU(0), ram |-> 0, cpu |-> NoCPU, preferences |-> NoPreferences]
  /\ Len(returned) = 1
  /\ returned[1].defaultVariant.vramRequired = 0
  /\ returned[1].assessment.score > 0

\* what the model-capability factor added to the score of a listed
\* assessment: the score without 100 and without the other contributions
CapabilityContribution(e) ==
  e.assessment.score - 100 * Unit
    - (evaluateVRAM(hardware, e.variant).scoreImpact
       + evaluateRAM(hardware, e.variant).scoreImpact
       + evaluateContext(e.model, e.variant,
                         FirstUseCase(e.model, PreferencesInUse)).scoreImpact
       + (IF e.model.performanceProfile.present
          THEN evaluatePerformanceProfile(e.model, PreferencesInUse).scoreImpact
          ELSE 0)
       + QuantizationBonus(e.variant)) * Unit

\* min(25, P * 1.5) plus the bonus, in units, P in tenths
CapabilityPlusBonus(e) ==
  Min(25 * Unit, (ParamCountTenths(e.model.parameters) * 3 * Unit) \div 20)
    + (IF e.model.qualityMetrics.present
       THEN BenchmarkBonus(e.model.qualityMetrics)
       ELSE ContextBonus(e.variant) * Unit)

\* C25: the model-capability factor adds min(25, P * 1.5) plus the bonus,
\* with P = 0 for a label without a number; 20 less when acceptableQuality
\* is high and (capability + bonus) / 35 * 5 is below 4.0; nothing less for
\* medium, any or no acceptableQuality.
C25_CapabilityContribution ==
  called =>
    \A e \in Listed :
      /\ CapabilityContribution(e) =
           IF /\ hardware.preferences.present
              /\ hardware.preferences.acceptableQuality = "high"
              /\ CapabilityPlusBonus(e) * 5 < 4 * 35 * Unit
           THEN CapabilityPlusBonus(e) - 20 * Unit
           ELSE CapabilityPlusBonus(e)
      /\ (e.model.parameters = LabelLarge /\ ~e.model.qualityMetrics.present) =>
           CapabilityPlusBonus(e) = ContextBonus(e.variant) * Unit

\* a result under acceptableQuality high that lists a variant of the model
\* with the unparseable label, which loses 20, and under it a result with
\* a 70B variant, whose estimate is not below 4.0
C25_Witness ==
  /\ called
  /\ hardware.preferences.present
  /\ hardware.preferences.acceptableQuality = "high"
  /\ \E e \in Listed :
       e.model.parameters = LabelLarge /\ CapabilityContribution(e) = -20 * Unit
  /\ \E e \in Listed :
       e.model.parameters = Label13B /\ CapabilityContribution(e) > 0

\* the profile has RAM, and a GPU, when it has one, has memory
PositiveCapacities ==
  hardware.ram > 0 /\ (hardware.gpu.present => hardware.gpu.vram > 0)

\* C28: on a profile with positive RAM and, when a GPU is present, positive
\* GPU memory, every listed variant has 100 plus its contributions at 15 or
\* more, so the floor of the clamp changes no score, and the category
\* incompatible is given only to scores from 15 to 29.
C28_SurvivorsScoreAtLeast15 ==
  (called /\ PositiveCapacities) =>
    \A e \in Listed :
      /\ 100 * Unit + Contributions(e.model, e.variant, hardware) >= 15 * Unit
      /\ e.assessment.score = 100 * Unit + Contributions(e.model, e.variant, hardware)
      /\ e.assessment.category = "incompatible" =>
           (15 * Unit <= e.assessment.score /\ e.assessment.score < 30 * Unit)

\* a listed variant that fills the GPU and the RAM, of a slow model with an
\* unparseable label and a short context, under speed and high quality:
\* it scores exactly 15 and is incompatible
C28_Witness ==
  /\ called
  /\ PositiveCapacities
  /\ \E e \in Listed :
       /\ e.variant.vramRequired = hardware.gpu.vram
       /\ e.variant.ramRequired = hardware.ram
       /\ e.assessment.score = 15 * Unit
       /\ e.assessment.category = "incompatible"

\* the three VRAM signals of a listed assessment
HasVRAMWarning(assessment) ==
  \E k \in 1..Len(assessment.warnings) :
    assessment.warnings[k] = "High VRAM usage - performance may be impacted"

VRAMRatedNegative(assessment) ==
  \E k \in 1..Len(assessment.reasons) :
    assessment.reasons[k].factor = "VRAM" /\ assessment.reasons[k].rating = "negative"

HasQuantizationSuggestion(assessment) ==
  \E k \in 1..Len(assessment.recommendations) :
    assessment.recommendations[k] = "Try a more aggressive quantization (Q4 instead of Q8)"

\* C29: in every listed assessment, on every profile, a GPU of capacity 0
\* included, the High VRAM usage warning is present exactly when the VRAM
\* reason is rated negative, and exactly when the more aggressive
\* quantization suggestion is present.
C29_VRAMSignalsAgree ==
  called =>
    \A e \in Listed :
      /\ HasVRAMWarning(e.assessment) <=> VRAMRatedNegative(e.assessment)
      /\ VRAMRatedNegative(e.assessment) <=> HasQuantizationSuggestion(e.assessment)

(***************************************************************************)
(* Properties of sortModels                                                *)
(***************************************************************************)

\* where an entry stands in the array sortModels was given; the entries of
\* a result are of distinct models
GivenPosition(entry) == CHOOSE i \in 1..Len(given) : given[i] = entry

\* the key each mode is to order by, ascending
RequestedKey(entry, mode) ==
  CASE mode = "vram" -> entry.defaultVariant.vramRequired
    [] mode = "size" -> entry.defaultVariant.fileSize
    [] mode = "context" -> -entry.defaultVariant.contextWindow
    [] mode = "score" -> -entry.assessment.score

\* C21: sortModels returns the entries in the order of the requested key,
\* vram and size ascending, context and score descending, and entries with
\* equal keys in the order they had in the array given.
C21_SortedByRequestedKey ==
  (sortCalled /\ sortedBy \in {"vram", "size", "context", "score"}) =>
    /\ Len(sorted) = Len(given)
    /\ \A i, j \in 1..Len(sorted) :
         i < j =>
           /\ \E k \in 1..Len(given) : given[k] = sorted[i]
           /\ \E k \in 1..Len(given) : given[k] = sorted[j]
           /\ RequestedKey(sorted[i], sortedBy) <= RequestedKey(sorted[j], sortedBy)
           /\ RequestedKey(sorted[i], sortedBy) = RequestedKey(sorted[j], sortedBy)
                => GivenPosition(sorted[i]) < GivenPosition(sorted[j])

\* three entries sorted by file size into another order than they were
\* given in, two of them of equal size
C21_Witness ==
  /\ sortCalled
  /\ sortedBy = "size"
  /\ Len(sorted) = 3
  /\ sorted # given
  /\ \E i, j \in 1..3 :
       /\ i < j
       /\ sorted[i].defaultVariant.fileSize = sorted[j].defaultVariant.fileSize
       /\ sorted[i].defaultVariant.vramRequired > sorted[j].defaultVariant.vramRequired

\* how often an entry occurs in an array
CountIn(seq, entry) == Cardinality({i \in 1..Len(seq) : seq[i] = entry})

\* C26: under every mode sortModels returns a permutation of the entries it
\* was given, none added, dropped or duplicated; the array it was given is
\* after the call in the order it had before; and every entry returned has
\* the variants, the default variant and the assessments it was given with.
C26_SortIsPure ==
  sortCalled =>
    /\ Len(sorted) = Len(given)
    /\ \A i \in 1..Len(given) : CountIn(sorted, given[i]) = CountIn(given, given[i])
    /\ \A i \in 1..Len(sorted) : CountIn(given, sorted[i]) = CountIn(sorted, sorted[i])
    /\ givenAfter = given
    /\ \A i \in 1..Len(sorted) :
         \E k \in 1..Len(given) :
           /\ sorted[i].model = given[k].model
           /\ sorted[i].variants = given[k].variants
           /\ sorted[i].defaultVariant = given[k].defaultVariant
           /\ sorted[i].assessment = given[k].assessment

\* a call that returned three entries in another order than the array
\* given, which is as it was
C26_Witness ==
  /\ sortCalled
  /\ Len(given) = 3
  /\ sorted # given
  /\ givenAfter = given
  /\ sorted[1].variants = given[3].variants
  /\ sorted[1].assessment = given[3].assessment

\* C22: after the efficiency sort, of any two entries the one with the
\* larger quotient of the scoring's capability value (capabilityScore +
\* benchmarkBonus of evaluateQuality, for the default variant) by the
\* default variant's vramRequired comes first.  Compared for the entries
\* whose default variant needs VRAM.
C22_EfficiencyUsesScoringBlend ==
  (sortCalled /\ sortedBy = "efficiency") =>
    \A i, j \in 1..Len(sorted) :
      (/\ i < j
       /\ sorted[i].defaultVariant.vramRequired > 0
       /\ sorted[j].defaultVariant.vramRequired > 0)
        => QualityTotal(sorted[i].model, sorted[i].defaultVariant)
               * sorted[j].defaultVariant.vramRequired
             >= QualityTotal(sorted[j].model, sorted[j].defaultVariant)
                  * sorted[i].defaultVariant.vramRequired

(***************************************************************************)
(* Properties of the pages                                                 *)
(***************************************************************************)

\* the recommendations page shows its list and its sort buttons
ListShown == route = "/recommendations" /\ ~loading /\ ~pageHardware.isNull

\* C30: whenever the page shows its list under the mode 'score', after any
\* sequence of sort-mode changes, the list is in the order recommendModels
\* returned it, entries of equal score included.
C30_ScoreRestoresOriginalOrder ==
  (ListShown /\ sortBy = "score") => recommendations = original

C27_DatabaseLoadedOnce == stores <= 1

====
